---- MODULE Spec2Model ----
(***************************************************************************)
(* Model of the command-line parsing engine of json-commander              *)
(* (json_commander/parse.hpp): name index, token classifier, the recursive *)
(* level parser, the post-processor and the top-level parse function.      *)
(*                                                                         *)
(* Strings are sequences of one-character strings, so that classification, *)
(* splitting on '=' and short-group iteration are computed character by    *)
(* character as the code does.  std::optional<T> is a set with at most one *)
(* element.  Token positions are 0-based as in the code: token i of the    *)
(* vector is tokens[i + 1].                                                *)
(***************************************************************************)
EXTENDS Integers, Sequences, FiniteSets, TLC

\* ---------------------------------------------------------------------------
\* Bounds
\* ---------------------------------------------------------------------------

\* longest token list drawn by Init
MaxTokens == 3

\* ---------------------------------------------------------------------------
\* std::optional
\* ---------------------------------------------------------------------------

nullopt == {}

Some(x) == {x}

has_value(o) == o # {}

value_of(o) == CHOOSE x \in o : TRUE

\* ---------------------------------------------------------------------------
\* nlohmann::json values: each JSON type is a record with its own field
\* ---------------------------------------------------------------------------

JStr(s) == [str |-> s]

JBool(b) == [bool |-> b]

JInt(n) == [int |-> n]

JArr(a) == [arr |-> a]

IsArr(j) == DOMAIN j = {"arr"}

\* nlohmann::json::object()
EmptyObject == [k \in {} |-> JBool(FALSE)]

\* config.contains(key)
Contains(config, key) == key \in DOMAIN config

\* config[key] = val
Put(config, key, val) ==
  [k \in (DOMAIN config) \cup {key} |-> IF k = key THEN val ELSE config[k]]

\* if (!config.contains(key)) config[key] = array(); config[key].push_back(val);
\* push_back on a value that is not an array throws nlohmann's type_error
PushBackThrows(config, key) == Contains(config, key) /\ ~IsArr(config[key])

PushBack(config, key, val) ==
  IF Contains(config, key)
    THEN Put(config, key, JArr(Append(config[key].arr, val)))
    ELSE Put(config, key, JArr(<<val>>))

\* mutant: the merge keeps the values the parent level already holds
MergeItemsKeep(config, sub) ==
  [k \in (DOMAIN config) \cup (DOMAIN sub) |-> IF k \in DOMAIN config THEN config[k] ELSE sub[k]]

\* for (auto &[key, val] : sub.items()) config[key] = val;
MergeItems(config, sub) ==
  [k \in (DOMAIN config) \cup (DOMAIN sub) |-> IF k \in DOMAIN sub THEN sub[k] ELSE config[k]]

\* ---------------------------------------------------------------------------
\* Strings used by the model
\* ---------------------------------------------------------------------------

S_a == <<"a">>

S_o == <<"o">>

S_out == <<"o", "u", "t">>

S_help == <<"h", "e", "l", "p">>

S_helpman == <<"h", "e", "l", "p", "-", "m", "a", "n">>

S_version == <<"v", "e", "r", "s", "i", "o", "n">>

S_file == <<"f", "i", "l", "e">>

S_req == <<"r", "e", "q">>

S_sub == <<"s", "u", "b">>

S_leaf == <<"l", "e", "a", "f">>

S_v == <<"v">>

S_d == <<"d">>

S_s == <<"s">>

S_e == <<"e">>

S_OUT == <<"O", "U", "T">>

S_1 == <<"1">>

S_verbose == <<"v", "e", "r", "b", "o", "s", "e">>

S_fast == <<"f", "a", "s", "t">>

S_mode == <<"m", "o", "d", "e">>

S_speed == <<"s", "p", "e", "e", "d">>

S_key == <<"k", "e", "y">>

S_inc == <<"i", "n", "c">>

S_q == <<"q">>

S_n == <<"n">>

S_f == <<"f">>

S_2 == <<"2">>

S_0 == <<"0">>

S_x == <<"x">>

S_TRUE == <<"T", "R", "U", "E">>

S_KEY == <<"K", "E", "Y">>

S_FLG == <<"F", "L", "G">>

T_dd == <<"-", "-">>

T_help == <<"-", "-">> \o S_help

T_helpman == <<"-", "-">> \o S_helpman

T_version == <<"-", "-">> \o S_version

T_helpeq == T_help \o <<"=", "v">>

T_out == <<"-", "-">> \o S_out

T_a == <<"-", "a">>

T_o == <<"-", "o">>

T_ao == <<"-", "a", "o">>

T_oa == <<"-", "o", "a">>

T_verbose == <<"-", "-">> \o S_verbose

T_vv == <<"-", "v", "v">>

T_fast == <<"-", "-">> \o S_fast

T_key1 == <<"-", "-">> \o S_key \o <<"=">> \o S_1

T_key2 == <<"-", "-">> \o S_key \o <<"=">> \o S_2

T_incv == <<"-", "-">> \o S_inc \o <<"=">> \o S_v

T_q == <<"-", "q">>

\* ---------------------------------------------------------------------------
\* Converters and validators (collaborators bound in the spec tree)
\* ---------------------------------------------------------------------------

Digits == {"0", "1", "2", "3", "4", "5", "6", "7", "8", "9"}

DigitVal(c) ==
  CASE c = "0" -> 0 [] c = "1" -> 1 [] c = "2" -> 2 [] c = "3" -> 3 [] c = "4" -> 4
    [] c = "5" -> 5 [] c = "6" -> 6 [] c = "7" -> 7 [] c = "8" -> 8 [] c = "9" -> 9

INT_MAX == 2147483647

RECURSIVE DecimalValue(_)
DecimalValue(s) ==
  IF s = <<>> THEN 0 ELSE 10 * DecimalValue(SubSeq(s, 1, Len(s) - 1)) + DigitVal(s[Len(s)])

\* int_conv().parse: std::from_chars over the whole string; {} when it throws
int_conv(s) ==
  LET neg == s # <<>> /\ s[1] = "-"
      ds == IF neg THEN Tail(s) ELSE s
  IN IF ds = <<>> \/ Len(ds) > 10 \/ \E k \in 1..Len(ds) : ds[k] \notin Digits
       THEN nullopt
       ELSE LET n == DecimalValue(ds)
            IN IF neg
                 THEN IF n > INT_MAX + 1 THEN nullopt ELSE Some(JInt(0 - n))
                 ELSE IF n > INT_MAX THEN nullopt ELSE Some(JInt(n))

\* string_conv().parse
string_conv(s) == Some(JStr(s))

\* file_conv().parse
file_conv(s) == Some(JStr(s))

\* spec.converter.parse(raw): the converted value, or {} when conv::Error is thrown
ConverterParse(converter, raw) ==
  CASE converter = "Int" -> int_conv(raw)
    [] converter = "File" -> file_conv(raw)
    [] OTHER -> string_conv(raw)

\* the paths std::filesystem::is_regular_file accepts
ExistingFiles == {S_v, S_e}

\* validate::required().check: what it throws, or "ok"
required(val) == IF ~has_value(val) THEN "validate::Error" ELSE "ok"

\* validate::must_exist_file().check: value->get<std::string>() throws nlohmann's type_error
\* on a value that is not a string
must_exist_file(val) ==
  IF ~has_value(val) THEN "ok"
  ELSE IF DOMAIN value_of(val) # {"str"} THEN "json::type_error"
  ELSE IF value_of(val).str \in ExistingFiles THEN "ok"
  ELSE "validate::Error"

\* the parts validate::from_option / from_positional hand to all_of, by description
ValidatorParts(validator) ==
  CASE validator = "required" -> <<"required">>
    [] validator = "must_exist(file)" -> <<"must_exist(file)">>
    [] validator = "required + must_exist(file)" -> <<"required", "must_exist(file)">>
    [] OTHER -> <<>>

\* all_of(parts).check: the parts in order, the first exception wins
ValidatorCheck(validator, val) ==
  LET parts == ValidatorParts(validator)
      outcome(n) == IF parts[n] = "required" THEN required(val) ELSE must_exist_file(val)
      failing == {n \in 1..Len(parts) : outcome(n) # "ok"}
  IN IF failing = {} THEN "ok" ELSE outcome(CHOOSE n \in failing : \A m \in failing : n <= m)

\* spec.validator.check(dest, val) throws
ValidatorThrows(validator, val) == ValidatorCheck(validator, val) # "ok"

\* ---------------------------------------------------------------------------
\* Spec tree (arg::ArgSpec, cmd::CommandSpec, cmd::RootSpec)
\* ---------------------------------------------------------------------------

\* arg::detail::resolve_dest: the first name longer than one character, else the first name
RECURSIVE FirstLongName(_)
FirstLongName(names) ==
  IF names = <<>> THEN nullopt
  ELSE IF Len(Head(names)) > 1 THEN Some(Head(names)) ELSE FirstLongName(Tail(names))

resolve_dest(names) ==
  IF has_value(FirstLongName(names)) THEN value_of(FirstLongName(names)) ELSE Head(names)

FlagSpec(names, repeated, env) ==
  [type |-> "Flag", names |-> names, dest |-> resolve_dest(names), repeated |-> repeated, env |-> env]

FlagGroupSpec(dest, default_value, entries, repeated) ==
  [type |-> "FlagGroup", dest |-> dest, default_value |-> default_value, entries |-> entries,
   repeated |-> repeated]

OptionSpec(names, converter, validator, default_value, repeated, env) ==
  [type |-> "Option", names |-> names, dest |-> resolve_dest(names), converter |-> converter,
   validator |-> validator, default_value |-> default_value, repeated |-> repeated, env |-> env]

PositionalSpec(name, converter, validator, default_value, repeated) ==
  [type |-> "Positional", name |-> name, dest |-> name, converter |-> converter,
   validator |-> validator, default_value |-> default_value, repeated |-> repeated]

CommandSpec(name, args, commands) == [name |-> name, args |-> args, commands |-> commands]

RootSpec(name, args, commands, version) ==
  [name |-> name, args |-> args, commands |-> commands, version |-> version]

\* config_schema::detail::type_spec_schema for the scalar types the model uses
type_spec_schema(converter) ==
  IF converter = "Int" THEN [type |-> "integer"] ELSE [type |-> "string"]

\* config_schema::detail::arg_schema: the schema generated for the argument's config value
arg_schema(spec) ==
  CASE spec.type = "Flag" ->
         IF spec.repeated THEN [type |-> "integer", minimum |-> 0] ELSE [type |-> "boolean"]
    [] spec.type = "FlagGroup" ->
         IF spec.repeated THEN [type |-> "array"] ELSE [type |-> "any"]
    [] OTHER ->
         IF spec.repeated THEN [type |-> "array", items |-> type_spec_schema(spec.converter)]
         ELSE type_spec_schema(spec.converter)

\* the command trees the model parses against:
\*   tool [-a] [--out|-o V (env OUT, default outDefault)] [--help V] [file]
\*     sub [--version] [-o V (env OUT)]
\*       leaf [--out|-o V (default "s")] req
LeafCommand ==
  CommandSpec(S_leaf,
    << OptionSpec(<<S_out, S_o>>, "String", "none", Some(JStr(S_s)), FALSE, nullopt),
       PositionalSpec(S_req, "String", "required", nullopt, FALSE) >>,
    << >>)

SubCommand ==
  CommandSpec(S_sub,
    << FlagSpec(<<S_version>>, FALSE, nullopt),
       OptionSpec(<<S_o>>, "String", "none", nullopt, FALSE, Some(S_OUT)) >>,
    << LeafCommand >>)

ToolRoot(version, outDefault) ==
  RootSpec(<<"t", "o", "o", "l">>,
    << FlagSpec(<<S_a>>, FALSE, nullopt),
       OptionSpec(<<S_out, S_o>>, "String", "none", outDefault, FALSE, Some(S_OUT)),
       OptionSpec(<<S_help>>, "String", "none", nullopt, FALSE, nullopt),
       PositionalSpec(S_file, "String", "none", nullopt, FALSE) >>,
    << SubCommand >>,
    version)

Roots == { ToolRoot(ver, def) : ver \in {nullopt, Some(S_1)}, def \in {nullopt, Some(JStr(S_d))} }

\* the environments the injected lookup is drawn from
EnvVars == {S_OUT}

Envs == [EnvVars -> {nullopt, Some(S_e)}]

\* EnvLookup: env(var)
EnvLookup(env, var) == IF var \in DOMAIN env THEN env[var] ELSE nullopt

\* the token vectors Init draws from
TokenVocab ==
  {T_dd, T_help, T_helpman, T_version, T_helpeq, T_out, T_a, T_o, T_ao, T_oa, S_v, S_sub, S_leaf}

TokenVectors == UNION { [1..n -> TokenVocab] : n \in 0..MaxTokens }

\* a second command tree, for repetition, flag groups, name collisions and validation:
\*   kit [--verbose|-v ... (env FLG)] [--fast|-v (group mode, default "n")]
\*       --key=V (required, env KEY, default keyDefault) [--inc=F ... (must exist, env KEY)]
\*     sub [--key=V (default "s")] [-q (env FLG)] [--fast (group speed, default "n")]
\*         file... (required, default fileDefault)
\* -v is declared twice at the root, and sub's --key shares its dest with the root's
KitSub(fileDefault) ==
  CommandSpec(S_sub,
    << OptionSpec(<<S_key>>, "String", "none", Some(JStr(S_s)), FALSE, nullopt),
       FlagSpec(<<S_q>>, FALSE, Some(S_FLG)),
       FlagGroupSpec(S_speed, JStr(S_n), << [names |-> <<S_fast>>, value |-> JStr(S_f)] >>, FALSE),
       PositionalSpec(S_file, "String", "required", fileDefault, TRUE) >>,
    << >>)

KitRoot(keyDefault, fileDefault) ==
  RootSpec(<<"k", "i", "t">>,
    << FlagSpec(<<S_verbose, S_v>>, TRUE, Some(S_FLG)),
       FlagGroupSpec(S_mode, JStr(S_n), << [names |-> <<S_fast, S_v>>, value |-> JStr(S_f)] >>, FALSE),
       OptionSpec(<<S_key>>, "String", "required", keyDefault, FALSE, Some(S_KEY)),
       OptionSpec(<<S_inc>>, "File", "must_exist(file)", nullopt, TRUE, Some(S_KEY)) >>,
    << KitSub(fileDefault) >>,
    nullopt)

KitRoots == { KitRoot(nullopt, nullopt), KitRoot(Some(JStr(S_d)), Some(JArr(<<JStr(S_d)>>))) }

KitEnvs == { [v \in {S_KEY, S_FLG} |-> IF v = S_KEY THEN key ELSE flg] :
               key \in {nullopt, Some(S_e)},
               flg \in {nullopt, Some(S_TRUE), Some(S_0), Some(S_x)} }

KitTokenVocab ==
  {T_dd, T_help, T_helpman, T_version, T_verbose, T_vv, T_fast, T_key1, T_key2, T_incv, T_q,
   S_sub, S_v}

KitTokenVectors == UNION { [1..n -> KitTokenVocab] : n \in 0..MaxTokens }

\* a third command tree, for value sourcing, accumulation, positional slots and scoping:
\*   mix [--tag|-t V ...] [--red|-r | --blue|-b ... (group color)] [src] [rest...]
\*     sub [--num|-n N] [--fast|-f | --slow|-s (group mode, default "n")] [dst]
\*     alt [--key V (env KEY, default "d")] req (required)
MixRoot ==
  RootSpec(<<"m", "i", "x">>,
    << OptionSpec(<< <<"t", "a", "g">>, <<"t">> >>, "String", "none", nullopt, TRUE, nullopt),
       FlagGroupSpec(<<"c", "o", "l", "o", "r">>, JArr(<<>>),
         << [names |-> << <<"r", "e", "d">>, <<"r">> >>, value |-> JStr(<<"r">>)],
            [names |-> << <<"b", "l", "u", "e">>, <<"b">> >>, value |-> JStr(<<"b">>)] >>, TRUE),
       PositionalSpec(<<"s", "r", "c">>, "String", "none", nullopt, FALSE),
       PositionalSpec(<<"r", "e", "s", "t">>, "String", "none", nullopt, TRUE) >>,
    << CommandSpec(S_sub,
         << OptionSpec(<< <<"n", "u", "m">>, S_n >>, "Int", "none", nullopt, FALSE, nullopt),
            FlagGroupSpec(S_mode, JStr(S_n),
              << [names |-> <<S_fast, S_f>>, value |-> JStr(S_f)],
                 [names |-> << <<"s", "l", "o", "w">>, S_s >>, value |-> JStr(S_s)] >>, FALSE),
            PositionalSpec(<<"d", "s", "t">>, "String", "none", nullopt, FALSE) >>,
         << >>),
       CommandSpec(<<"a", "l", "t">>,
         << OptionSpec(<<S_key>>, "String", "none", Some(JStr(S_d)), FALSE, Some(S_KEY)),
            PositionalSpec(S_req, "String", "required", nullopt, FALSE) >>,
         << >>) >>,
    Some(S_1))

\* the tokens drawn for the third tree; the element "0xFF" stands for the byte 0xFF, which is
\* not valid UTF-8
MixTokenVocab ==
  {T_dd, T_help, T_helpman, T_version,
   <<"-", "-", "t", "a", "g">>, <<"-", "-", "t", "a", "g", "=">>,
   <<"-", "-", "t", "a", "g", "=", "a", "=", "b">>, <<"-", "t">>, <<"-", "r", "t">>,
   <<"-", "-", "r", "e", "d">>, <<"-", "b">>,
   <<"-", "-", "n", "u", "m">>, <<"-", "-", "n", "u", "m", "=", "1">>, <<"-", "n">>,
   T_fast, <<"-", "s">>,
   S_sub, <<"a", "l", "t">>, S_x, S_1, <<"0xFF">>}

\* for (const auto &cmd : commands) if (cmd.name == name): the first match, 1-based, or {}
find_command(commands, name) ==
  LET hits == {k \in 1..Len(commands) : commands[k].name = name}
  IN IF hits = {} THEN nullopt ELSE Some(CHOOSE k \in hits : \A m \in hits : k <= m)

\* the command a chain of subcommand names leads to
RECURSIVE CommandAt(_, _)
CommandAt(node, path) ==
  IF path = <<>> THEN node
  ELSE CommandAt(node.commands[value_of(find_command(node.commands, Head(path)))], Tail(path))

\* manpage::find_command: the command the renderers resolve a non-empty path to, walking the
\* children by name from the root (first match); std::runtime_error when the path is empty
\* or a segment names no child
manpage_find_command(node, path) ==
  LET walk[n \in 0..Len(path)] ==
        IF n = 0 THEN Some(node)
        ELSE IF ~has_value(walk[n - 1]) THEN nullopt
        ELSE LET cmds == value_of(walk[n - 1]).commands
                 hits == {k \in 1..Len(cmds) : cmds[k].name = path[n]}
             IN IF hits = {} THEN nullopt
                ELSE Some(cmds[CHOOSE k \in hits : \A m \in hits : k <= m])
  IN IF path = <<>> \/ ~has_value(walk[Len(path)]) THEN [throws |-> "std::runtime_error"]
     ELSE [found |-> value_of(walk[Len(path)])]

\* config_schema::to_config_schema(root, command_path), as far as the keys it admits: the
\* properties are the dests of the arguments of the root and of each command the path names
\* (first match per level), and generate sets additionalProperties to false;
\* std::runtime_error when a segment names no child
to_config_schema(node, command_path) ==
  LET walk[n \in 0..Len(command_path)] ==
        IF n = 0 THEN Some([commands |-> node.commands, all_args |-> node.args])
        ELSE IF ~has_value(walk[n - 1]) THEN nullopt
        ELSE LET commands == value_of(walk[n - 1]).commands
                 hit == find_command(commands, command_path[n])
             IN IF ~has_value(hit) THEN nullopt
                ELSE Some([commands |-> commands[value_of(hit)].commands,
                           all_args |-> value_of(walk[n - 1]).all_args
                                          \o commands[value_of(hit)].args])
      last == walk[Len(command_path)]
  IN IF ~has_value(last) THEN [throws |-> "std::runtime_error"]
     ELSE [properties |-> {value_of(last).all_args[j].dest : j \in 1..Len(value_of(last).all_args)},
           additionalProperties |-> FALSE]

\* ---------------------------------------------------------------------------
\* Name index
\* ---------------------------------------------------------------------------

\* cli_name
cli_name(name) == IF Len(name) = 1 THEN <<"-">> \o name ELSE <<"-", "-">> \o name

MatchResult(arg_index, kind, entry_index) ==
  [arg_index |-> arg_index, kind |-> kind, entry_index |-> entry_index]

\* the insertions build_index makes for one names vector, in order
NameInserts(names, match) == [n \in 1..Len(names) |-> [cli_name |-> cli_name(names[n]), match |-> match]]

RECURSIVE EntryInserts(_, _, _)
EntryInserts(entries, arg_index, e) ==
  IF e > Len(entries) THEN <<>>
  ELSE NameInserts(entries[e].names, MatchResult(arg_index, "FlagGroup", e - 1))
         \o EntryInserts(entries, arg_index, e + 1)

ArgInserts(spec, arg_index) ==
  CASE spec.type = "Flag" -> NameInserts(spec.names, MatchResult(arg_index, "Flag", 0))
    [] spec.type = "Option" -> NameInserts(spec.names, MatchResult(arg_index, "Option", 0))
    [] spec.type = "FlagGroup" -> EntryInserts(spec.entries, arg_index, 1)
    [] OTHER -> <<>>

\* build_index: every insertion in the order the loops make them (arg_index is 0-based)
RECURSIVE build_index(_, _)
build_index(args, from) ==
  IF from > Len(args) THEN <<>>
  ELSE ArgInserts(args[from], from - 1) \o build_index(args, from + 1)

\* mutant: an insertion under an existing name replaces the entry
lookup_last(index, name) ==
  LET hits == {n \in 1..Len(index) : index[n].cli_name = name}
  IN IF hits = {} THEN nullopt
     ELSE Some(index[CHOOSE n \in hits : \A m \in hits : n >= m].match)

\* NameIndex::insert is unordered_map::emplace, which keeps an existing entry:
\* lookup finds the first insertion made under the name
lookup(index, name) ==
  LET hits == {n \in 1..Len(index) : index[n].cli_name = name}
  IN IF hits = {} THEN nullopt
     ELSE Some(index[CHOOSE n \in hits : \A m \in hits : n <= m].match)

\* ---------------------------------------------------------------------------
\* Token classification
\* ---------------------------------------------------------------------------

classify_token(token) ==
  IF token = <<"-", "-">> THEN "DoubleDash"
  ELSE IF Len(token) >= 3 /\ token[1] = "-" /\ token[2] = "-" THEN "LongOption"
  ELSE IF Len(token) >= 2 /\ token[1] = "-" /\ token[2] # "-" THEN "ShortGroup"
  ELSE "Positional"

\* mutant: the token is split on its last '='
split_long_option_last(token) ==
  LET stripped == SubSeq(token, 3, Len(token))
      eqs == {k \in 1..Len(stripped) : stripped[k] = "="}
  IN IF eqs = {} THEN [name |-> stripped, value |-> nullopt]
     ELSE LET eq == CHOOSE k \in eqs : \A m \in eqs : k >= m
          IN [name |-> SubSeq(stripped, 1, eq - 1),
              value |-> Some(SubSeq(stripped, eq + 1, Len(stripped)))]

\* split_long_option: the name, and the text after the first '=' when there is one
split_long_option(token) ==
  LET stripped == SubSeq(token, 3, Len(token))
      eqs == {k \in 1..Len(stripped) : stripped[k] = "="}
  IN IF eqs = {} THEN [name |-> stripped, value |-> nullopt]
     ELSE LET eq == CHOOSE k \in eqs : \A m \in eqs : k <= m
          IN [name |-> SubSeq(stripped, 1, eq - 1),
              value |-> Some(SubSeq(stripped, eq + 1, Len(stripped)))]

\* ---------------------------------------------------------------------------
\* Level parser: results, errors, per-level state
\* ---------------------------------------------------------------------------

LevelOk(config, command_path, next_pos) ==
  [kind |-> "LevelOk", config |-> config, command_path |-> command_path, next_pos |-> next_pos]

ParseOk(config, command_path) ==
  [kind |-> "ParseOk", config |-> config, command_path |-> command_path]

HelpRequest(command_path) == [kind |-> "HelpRequest", command_path |-> command_path]

ManpageRequest(command_path) == [kind |-> "ManpageRequest", command_path |-> command_path]

VersionRequest == [kind |-> "VersionRequest"]

\* a thrown exception: the taxonomy kind of the parse::Error and the name its message carries
Error(kind, name) == [kind |-> "Error", error |-> kind, name |-> name]

\* the C++ type of a thrown exception: parse::Error unless it came from the json library or
\* from std::get
ExceptionType(e) ==
  IF e.error \in {"json::type_error", "std::bad_variant_access"} THEN e.error ELSE "parse::Error"

\* what a token was used as: kind of use, the level that used it, the arguments it selected
Role(kind, level, args) == [kind |-> kind, level |-> level, args |-> args]

NoRole == Role("none", <<>>, <<>>)

\* the locals of one parse_level invocation
Frame(level, args, start, is_root, version) ==
  [level |-> level,
   config |-> EmptyObject,
   command_path |-> <<>>,
   flag_counts |-> [k \in 1..Len(args) |-> 0],
   pos_cursor |-> 0,
   options_terminated |-> FALSE,
   i |-> start,
   is_root |-> is_root,
   version |-> version]

\* positional_indices: the 0-based indices of the PositionalSpecs, in declaration order
RECURSIVE positional_indices(_, _)
positional_indices(args, from) ==
  IF from > Len(args) THEN <<>>
  ELSE (IF args[from].type = "Positional" THEN <<from - 1>> ELSE <<>>)
         \o positional_indices(args, from + 1)

\* outcome of one step of the loop body
Continue(fr, marks) == [tag |-> "continue", fr |-> fr, marks |-> marks]

Throw(err, marks) == [tag |-> "throw", err |-> err, marks |-> marks]

Return(res, marks) == [tag |-> "return", res |-> res, marks |-> marks]

Call(fr, cmd, child, marks) == [tag |-> "call", fr |-> fr, cmd |-> cmd, child |-> child, marks |-> marks]

\* mutant: a repeated flag is stored as 1 however often it occurs
ApplyFlagOnce(fr, flag, arg_index) ==
  [fr EXCEPT !.flag_counts[arg_index + 1] = 1,
             !.config = Put(@, flag.dest, IF flag.repeated THEN JInt(1) ELSE JBool(TRUE))]

\* flag_counts[idx]++; config[flag.dest] = repeated ? count : true
ApplyFlag(fr, flag, arg_index) ==
  LET count == fr.flag_counts[arg_index + 1] + 1
  IN [fr EXCEPT !.flag_counts[arg_index + 1] = count,
                !.config = Put(@, flag.dest, IF flag.repeated THEN JInt(count) ELSE JBool(TRUE))]

\* flag_counts[idx]++; append or overwrite the matched entry's value
ApplyFlagGroup(fr, group, match) ==
  LET entry == group.entries[match.entry_index + 1]
  IN [fr EXCEPT !.flag_counts[match.arg_index + 1] = @ + 1,
                !.config = IF group.repeated THEN PushBack(@, group.dest, entry.value)
                           ELSE Put(@, group.dest, entry.value)]

\* mutant: a value always overwrites what the dest holds
StoreValueOverwrite(config, spec, converted) == Put(config, spec.dest, converted)

\* append to the array when repeated, else overwrite
StoreValue(config, spec, converted) ==
  IF spec.repeated THEN PushBack(config, spec.dest, converted) ELSE Put(config, spec.dest, converted)

\* ---------------------------------------------------------------------------
\* Level parser: the body of the while loop of parse_level
\* ---------------------------------------------------------------------------

\* mutant: --version is reserved at every level
VersionReservedAnywhere(fr, token) == token = T_version

\* is_root && token == "--version"
VersionReserved(fr, token) == fr.is_root /\ token = T_version

\* mutant: a positional token is consumed as a positional before the subcommand check
\* while no positional has been consumed yet
BranchOfPositionalFirst(fr, commands, token) ==
  IF ~fr.options_terminated
    THEN LET kind == classify_token(token)
         IN IF kind = "DoubleDash" THEN "DoubleDash"
            ELSE IF token = T_help THEN "Help"
            ELSE IF token = T_helpman THEN "HelpMan"
            ELSE IF fr.is_root /\ token = T_version THEN "Version"
            ELSE IF kind = "LongOption" THEN "LongOption"
            ELSE IF kind = "ShortGroup" THEN "ShortGroup"
            ELSE IF fr.pos_cursor > 0 /\ has_value(find_command(commands, token)) THEN "Subcommand"
            ELSE "Positional"
    ELSE "Positional"

\* mutant: --help and --help-man are reserved at the root only, as --version is
BranchOfRootOnlyHelp(fr, commands, token) ==
  IF ~fr.options_terminated
    THEN LET kind == classify_token(token)
         IN IF kind = "DoubleDash" THEN "DoubleDash"
            ELSE IF fr.is_root /\ token = T_help THEN "Help"
            ELSE IF fr.is_root /\ token = T_helpman THEN "HelpMan"
            ELSE IF fr.is_root /\ token = T_version THEN "Version"
            ELSE IF kind = "LongOption" THEN "LongOption"
            ELSE IF kind = "ShortGroup" THEN "ShortGroup"
            ELSE IF has_value(find_command(commands, token)) THEN "Subcommand"
            ELSE "Positional"
    ELSE "Positional"

\* mutant: the long-option branch comes before the reserved-token checks
BranchOfLongFirst(fr, commands, token) ==
  IF ~fr.options_terminated
    THEN LET kind == classify_token(token)
         IN IF kind = "DoubleDash" THEN "DoubleDash"
            ELSE IF kind = "LongOption" THEN "LongOption"
            ELSE IF token = T_help THEN "Help"
            ELSE IF token = T_helpman THEN "HelpMan"
            ELSE IF fr.is_root /\ token = T_version THEN "Version"
            ELSE IF kind = "ShortGroup" THEN "ShortGroup"
            ELSE IF has_value(find_command(commands, token)) THEN "Subcommand"
            ELSE "Positional"
    ELSE "Positional"

\* which branch of the loop body handles the token at fr.i
BranchOf(fr, commands, token) ==
  IF ~fr.options_terminated
    THEN LET kind == classify_token(token)
         IN IF kind = "DoubleDash" THEN "DoubleDash"
            ELSE IF token = T_help THEN "Help"
            ELSE IF token = T_helpman THEN "HelpMan"
            ELSE IF VersionReserved(fr, token) THEN "Version"
            ELSE IF kind = "LongOption" THEN "LongOption"
            ELSE IF kind = "ShortGroup" THEN "ShortGroup"
            ELSE IF has_value(find_command(commands, token)) THEN "Subcommand"
            ELSE "Positional"
    ELSE "Positional"

\* mutant: the -- token is skipped without terminating options
DoubleDashSkipped(fr) ==
  Continue([fr EXCEPT !.i = @ + 1], {<<fr.i, Role("ddash", fr.level, <<>>)>>})

\* mutant: the -- token terminates options without being passed over
DoubleDashStays(fr) ==
  Continue([fr EXCEPT !.options_terminated = TRUE], {<<fr.i, Role("ddash", fr.level, <<>>)>>})

\* kind == DoubleDash: options_terminated = true; ++i
DoubleDash(fr) ==
  Continue([fr EXCEPT !.options_terminated = TRUE, !.i = @ + 1],
           {<<fr.i, Role("ddash", fr.level, <<>>)>>})

\* token == "--help"
Help(fr) == Return(HelpRequest(fr.command_path), {<<fr.i, Role("help", fr.level, <<>>)>>})

\* token == "--help-man"
HelpMan(fr) == Return(ManpageRequest(fr.command_path), {<<fr.i, Role("helpman", fr.level, <<>>)>>})

\* is_root && token == "--version"
Version(fr) ==
  LET marks == {<<fr.i, Role("version", fr.level, <<>>)>>}
  IN IF ~has_value(fr.version) THEN Throw(Error("MissingVersion", T_version), marks)
     ELSE Return(VersionRequest, marks)

\* mutant: a value that reads -- also terminates option parsing
TakeOptionValueClassifies(fr, opt, arg_index, shown, raw_value, at, marks) ==
  LET converted == ConverterParse(opt.converter, raw_value)
  IN IF ~has_value(converted) THEN Throw(Error("ConversionError", shown), marks)
     ELSE IF opt.repeated /\ PushBackThrows(fr.config, opt.dest)
       THEN Throw([kind |-> "Error", error |-> "json::type_error", name |-> shown], marks)
     ELSE Continue([fr EXCEPT !.config = StoreValue(@, opt, value_of(converted)), !.i = at,
                              !.options_terminated = @ \/ raw_value = T_dd], marks)

\* the Option branch shared by long options and the last character of a short group:
\* at is the position of the value token (or of the option token for an inline value)
TakeOptionValue(fr, opt, arg_index, shown, raw_value, at, marks) ==
  LET converted == ConverterParse(opt.converter, raw_value)
  IN IF ~has_value(converted) THEN Throw(Error("ConversionError", shown), marks)
     ELSE IF opt.repeated /\ PushBackThrows(fr.config, opt.dest)
       THEN Throw([kind |-> "Error", error |-> "json::type_error", name |-> shown], marks)
     ELSE Continue([fr EXCEPT !.config = StoreValue(@, opt, value_of(converted)), !.i = at], marks)

\* kind == LongOption
LongOption(fr, args, tokens) ==
  LET token == tokens[fr.i + 1]
      split == split_long_option(token)
      shown == <<"-", "-">> \o split.name
      match == lookup(build_index(args, 1), shown)
  IN IF ~has_value(match)
       THEN Throw(Error("UnknownOption", shown), {<<fr.i, Role("long", fr.level, <<>>)>>})
       ELSE LET m == value_of(match)
                spec == args[m.arg_index + 1]
                mark == {<<fr.i, Role("long", fr.level, <<m.arg_index>>)>>}
            IN CASE m.kind = "Flag" ->
                      Continue([ApplyFlag(fr, spec, m.arg_index) EXCEPT !.i = @ + 1], mark)
                 [] m.kind = "FlagGroup" ->
                      Continue([ApplyFlagGroup(fr, spec, m) EXCEPT !.i = @ + 1], mark)
                 [] m.kind = "Option" ->
                      IF has_value(split.value)
                        THEN LET o == TakeOptionValue(fr, spec, m.arg_index, shown,
                                                      value_of(split.value), fr.i, mark)
                             IN IF o.tag = "continue" THEN [o EXCEPT !.fr.i = @ + 1] ELSE o
                        ELSE IF fr.i + 1 >= Len(tokens)
                          THEN Throw(Error("MissingOptionValue", shown), mark)
                          ELSE LET o == TakeOptionValue(fr, spec, m.arg_index, shown,
                                          tokens[fr.i + 2], fr.i + 1,
                                          mark \cup {<<fr.i + 1, Role("value", fr.level, <<m.arg_index>>)>>})
                               IN IF o.tag = "continue" THEN [o EXCEPT !.fr.i = @ + 1] ELSE o

\* mutant: every character of the group is looked up under the group's first character
short_name_first(token, c) == <<"-", token[2]>>

\* std::string("-") + token[c]  (c is the 0-based character position)
short_name(token, c) == <<"-", token[c + 1]>>

\* mutant: an Option is accepted anywhere in the group
NotLastInGroupNever(token, c) == FALSE

\* c != token.size() - 1
NotLastInGroup(token, c) == c # Len(token) - 1

\* the for loop over the characters of a short group, from character c on;
\* seen are the arguments selected so far, first the position of the group token
RECURSIVE ShortGroupLoop(_, _, _, _, _, _, _)
ShortGroupLoop(fr, args, tokens, first, c, seen, marks) ==
  LET token == tokens[first + 1]
      here(sel) == marks \cup {<<first, Role("short", fr.level, sel)>>}
  IN IF c >= Len(token)
       THEN Continue([fr EXCEPT !.i = @ + 1], here(seen))
       ELSE LET shown == short_name(token, c)
                match == lookup(build_index(args, 1), shown)
            IN IF ~has_value(match)
                 THEN Throw(Error("UnknownOption", shown), here(seen))
                 ELSE LET m == value_of(match)
                          spec == args[m.arg_index + 1]
                          sel == Append(seen, m.arg_index)
                      IN CASE m.kind = "Flag" ->
                                ShortGroupLoop(ApplyFlag(fr, spec, m.arg_index), args, tokens,
                                               first, c + 1, sel, marks)
                           [] m.kind = "FlagGroup" ->
                                ShortGroupLoop(ApplyFlagGroup(fr, spec, m), args, tokens,
                                               first, c + 1, sel, marks)
                           [] m.kind = "Option" ->
                                IF NotLastInGroup(token, c)
                                  THEN Throw(Error("MisplacedShortOption", shown), here(sel))
                                ELSE IF fr.i + 1 >= Len(tokens)
                                  THEN Throw(Error("MissingOptionValue", shown), here(sel))
                                ELSE LET vmarks == marks \cup
                                           {<<fr.i + 1, Role("value", fr.level, <<m.arg_index>>)>>}
                                         o == TakeOptionValue(fr, spec, m.arg_index, shown,
                                                tokens[fr.i + 2], fr.i + 1,
                                                vmarks \cup {<<first, Role("short", fr.level, sel)>>})
                                     IN IF o.tag = "continue"
                                          THEN ShortGroupLoop(o.fr, args, tokens, first, c + 1,
                                                              sel, vmarks)
                                          ELSE o

\* kind == ShortGroup
ShortGroup(fr, args, tokens) == ShortGroupLoop(fr, args, tokens, fr.i, 1, <<>>, {})

\* the subcommand check found cmd: command_path.push_back(cmd.name) and the recursive call
\* parse_level(cmd.args, cmd.commands, tokens, i + 1, false, std::nullopt)
Subcommand(fr, commands, tokens) ==
  LET cmd == commands[value_of(find_command(commands, tokens[fr.i + 1]))]
  IN Call([fr EXCEPT !.command_path = Append(@, cmd.name)],
          cmd,
          Frame(Append(fr.level, cmd.name), cmd.args, fr.i + 1, FALSE, nullopt),
          {<<fr.i, Role("subcmd", fr.level, <<>>)>>})

\* mutant: the caller's own segment is not prepended
full_path_sub_only(command_path, sub_path) == sub_path

\* full_path = command_path followed by the sub-level's command_path
full_path(command_path, sub_path) == command_path \o sub_path

\* mutant: the caller resumes at the last token the child consumed
AfterSubcommandResumes(fr, sub_result) ==
  CASE sub_result.kind = "HelpRequest" ->
         Return(HelpRequest(full_path(fr.command_path, sub_result.command_path)), {})
    [] sub_result.kind = "ManpageRequest" ->
         Return(ManpageRequest(full_path(fr.command_path, sub_result.command_path)), {})
    [] sub_result.kind = "VersionRequest" -> Return(VersionRequest, {})
    [] sub_result.kind = "LevelOk" ->
         Continue([fr EXCEPT !.config = MergeItems(@, sub_result.config),
                             !.command_path = @ \o sub_result.command_path,
                             !.i = sub_result.next_pos - 1], {})

\* what the caller does with sub_result
AfterSubcommand(fr, sub_result) ==
  CASE sub_result.kind = "HelpRequest" ->
         Return(HelpRequest(full_path(fr.command_path, sub_result.command_path)), {})
    [] sub_result.kind = "ManpageRequest" ->
         Return(ManpageRequest(full_path(fr.command_path, sub_result.command_path)), {})
    [] sub_result.kind = "VersionRequest" -> Return(VersionRequest, {})
    [] sub_result.kind = "LevelOk" ->
         Continue([fr EXCEPT !.config = MergeItems(@, sub_result.config),
                             !.command_path = @ \o sub_result.command_path,
                             !.i = sub_result.next_pos], {})

\* mutant: the cursor advances after a repeated slot too
PositionalAlwaysAdvances(fr, args, tokens) ==
  LET indices == positional_indices(args, 1)
      token == tokens[fr.i + 1]
  IN IF fr.pos_cursor >= Len(indices)
       THEN Throw(Error("UnexpectedPositional", token), {<<fr.i, Role("positional", fr.level, <<>>)>>})
       ELSE LET pos_idx == indices[fr.pos_cursor + 1]
                pos == args[pos_idx + 1]
                mark == {<<fr.i, Role("positional", fr.level, <<pos_idx>>)>>}
                converted == ConverterParse(pos.converter, token)
            IN IF ~has_value(converted) THEN Throw(Error("ConversionError", pos.name), mark)
               ELSE IF pos.repeated /\ PushBackThrows(fr.config, pos.dest)
                 THEN Throw([kind |-> "Error", error |-> "json::type_error", name |-> pos.name], mark)
               ELSE Continue([fr EXCEPT !.config = StoreValue(@, pos, value_of(converted)),
                                        !.pos_cursor = @ + 1,
                                        !.i = @ + 1], mark)

\* treat the token as positional
Positional(fr, args, tokens) ==
  LET indices == positional_indices(args, 1)
      token == tokens[fr.i + 1]
  IN IF fr.pos_cursor >= Len(indices)
       THEN Throw(Error("UnexpectedPositional", token), {<<fr.i, Role("positional", fr.level, <<>>)>>})
       ELSE LET pos_idx == indices[fr.pos_cursor + 1]
                pos == args[pos_idx + 1]
                mark == {<<fr.i, Role("positional", fr.level, <<pos_idx>>)>>}
                converted == ConverterParse(pos.converter, token)
            IN IF ~has_value(converted) THEN Throw(Error("ConversionError", pos.name), mark)
               ELSE IF pos.repeated /\ PushBackThrows(fr.config, pos.dest)
                 THEN Throw([kind |-> "Error", error |-> "json::type_error", name |-> pos.name], mark)
               ELSE Continue([fr EXCEPT !.config = StoreValue(@, pos, value_of(converted)),
                                        !.pos_cursor = IF pos.repeated THEN @ ELSE @ + 1,
                                        !.i = @ + 1], mark)

\* one iteration of the while loop (i < tokens.size())
ScanToken(fr, args, commands, tokens) ==
  LET branch == BranchOf(fr, commands, tokens[fr.i + 1])
  IN CASE branch = "DoubleDash" -> DoubleDash(fr)
       [] branch = "Help" -> Help(fr)
       [] branch = "HelpMan" -> HelpMan(fr)
       [] branch = "Version" -> Version(fr)
       [] branch = "LongOption" -> LongOption(fr, args, tokens)
       [] branch = "ShortGroup" -> ShortGroup(fr, args, tokens)
       [] branch = "Subcommand" -> Subcommand(fr, commands, tokens)
       [] branch = "Positional" -> Positional(fr, args, tokens)

\* parse_level from the state fr on, as a function: its LevelResult, or the Error it throws
RECURSIVE LevelLoop(_, _, _, _)
LevelLoop(fr, args, commands, tokens) ==
  IF fr.i >= Len(tokens) THEN LevelOk(fr.config, fr.command_path, fr.i)
  ELSE LET o == ScanToken(fr, args, commands, tokens)
       IN CASE o.tag = "continue" -> LevelLoop(o.fr, args, commands, tokens)
            [] o.tag = "throw" -> o.err
            [] o.tag = "return" -> o.res
            [] o.tag = "call" ->
                 LET sub == LevelLoop(o.child, o.cmd.args, o.cmd.commands, tokens)
                 IN IF sub.kind = "Error" THEN sub
                    ELSE LET a == AfterSubcommand(o.fr, sub)
                         IN IF a.tag = "continue" THEN LevelLoop(a.fr, args, commands, tokens)
                            ELSE a.res

parse_level(args, commands, tokens, start, is_root, version) ==
  LevelLoop(Frame(<<>>, args, start, is_root, version), args, commands, tokens)

\* ---------------------------------------------------------------------------
\* Post-processing: env fallback, defaults, validation
\* ---------------------------------------------------------------------------

UpperCase ==
  <<"A", "B", "C", "D", "E", "F", "G", "H", "I", "J", "K", "L", "M",
    "N", "O", "P", "Q", "R", "S", "T", "U", "V", "W", "X", "Y", "Z">>

LowerCase ==
  <<"a", "b", "c", "d", "e", "f", "g", "h", "i", "j", "k", "l", "m",
    "n", "o", "p", "q", "r", "s", "t", "u", "v", "w", "x", "y", "z">>

\* mutant: the text is compared as it is
tolower_identity(ch) == ch

\* std::tolower
tolower(ch) ==
  IF \E k \in 1..26 : UpperCase[k] = ch THEN LowerCase[CHOOSE k \in 1..26 : UpperCase[k] = ch] ELSE ch

\* std::transform(..., tolower)
lower(s) == [k \in 1..Len(s) |-> tolower(s[k])]

\* the Flag branch of apply_env skips a flag the command line set to a value other than false
FlagAlreadySet(config, spec) == Contains(config, spec.dest) /\ config[spec.dest] # JBool(FALSE)

\* mutant: the environment is consulted although the command line gave a value
OptionAlreadySetNever(config, spec) == FALSE

\* the Option branch of apply_env skips an option whose dest is present
OptionAlreadySet(config, spec) == Contains(config, spec.dest)

\* apply_env from argument from on: the config, the env variables looked up (with the 0-based
\* index of the argument that asked), and the Error thrown, if any
RECURSIVE apply_env(_, _, _, _, _)
apply_env(config, args, env, from, reads) ==
  IF from > Len(args) THEN [config |-> config, reads |-> reads, err |-> nullopt]
  ELSE LET spec == args[from]
           skip == apply_env(config, args, env, from + 1, reads)
       IN IF spec.type = "Flag"
            THEN IF FlagAlreadySet(config, spec) \/ ~has_value(spec.env) THEN skip
                 ELSE LET var == value_of(spec.env)
                          val == EnvLookup(env, var)
                          reads1 == reads \cup {<<from - 1, var>>}
                      IN IF ~has_value(val) THEN apply_env(config, args, env, from + 1, reads1)
                         ELSE LET low == lower(value_of(val))
                              IN IF low = <<"t", "r", "u", "e">> \/ low = <<"1">>
                                   THEN apply_env(Put(config, spec.dest, JBool(TRUE)), args, env,
                                                  from + 1, reads1)
                                 ELSE IF low = <<"f", "a", "l", "s", "e">> \/ low = <<"0">>
                                   THEN apply_env(Put(config, spec.dest, JBool(FALSE)), args, env,
                                                  from + 1, reads1)
                                 ELSE [config |-> config, reads |-> reads1,
                                       err |-> Some(Error("EnvConversionError", var))]
          ELSE IF spec.type = "Option"
            THEN IF OptionAlreadySet(config, spec) \/ ~has_value(spec.env) THEN skip
                 ELSE LET var == value_of(spec.env)
                          val == EnvLookup(env, var)
                          reads1 == reads \cup {<<from - 1, var>>}
                      IN IF ~has_value(val) THEN apply_env(config, args, env, from + 1, reads1)
                         ELSE LET converted == ConverterParse(spec.converter, value_of(val))
                              IN IF ~has_value(converted)
                                   THEN [config |-> config, reads |-> reads1,
                                         err |-> Some(Error("EnvConversionError", var))]
                                   ELSE apply_env(Put(config, spec.dest, value_of(converted)),
                                                  args, env, from + 1, reads1)
          ELSE skip

\* mutant: declared defaults of Options and Positionals are never written
TakesDefaultNever(config, spec) == FALSE

\* whether apply_defaults writes the declared default of an Option or Positional
TakesDefault(config, spec) == ~Contains(config, spec.dest) /\ has_value(spec.default_value)

\* apply_defaults from argument from on: the config and the 0-based indices of the
\* arguments that were given their default
RECURSIVE apply_defaults(_, _, _, _)
apply_defaults(config, args, from, applied) ==
  IF from > Len(args) THEN [config |-> config, applied |-> applied]
  ELSE LET spec == args[from]
           skip == apply_defaults(config, args, from + 1, applied)
           set(val) == apply_defaults(Put(config, spec.dest, val), args, from + 1,
                                      applied \cup {from - 1})
       IN CASE spec.type = "Flag" ->
                 IF ~Contains(config, spec.dest) THEN set(JBool(FALSE)) ELSE skip
            [] spec.type \in {"Option", "Positional"} ->
                 IF TakesDefault(config, spec) THEN set(value_of(spec.default_value)) ELSE skip
            [] spec.type = "FlagGroup" ->
                 IF ~Contains(config, spec.dest) THEN set(spec.default_value) ELSE skip

\* mutant: the validators of all arguments run and the last exception is reported
run_validators_last(config, args) ==
  LET failing == {k \in 1..Len(args) :
                    /\ args[k].type \in {"Option", "Positional"}
                    /\ ValidatorThrows(args[k].validator,
                                       IF Contains(config, args[k].dest)
                                         THEN Some(config[args[k].dest]) ELSE nullopt)}
  IN IF failing = {} THEN nullopt
     ELSE LET spec == args[CHOOSE k \in failing : \A m \in failing : k >= m]
              thrown == ValidatorCheck(spec.validator,
                                       IF Contains(config, spec.dest)
                                         THEN Some(config[spec.dest]) ELSE nullopt)
          IN IF thrown = "validate::Error" THEN Some(Error("ValidationError", spec.dest))
             ELSE Some([kind |-> "Error", error |-> thrown, name |-> spec.dest])

\* run_validators: the exception of the first validator that throws, if any; only
\* validate::Error is caught and rethrown as parse::Error
run_validators(config, args) ==
  LET failing == {k \in 1..Len(args) :
                    /\ args[k].type \in {"Option", "Positional"}
                    /\ ValidatorThrows(args[k].validator,
                                       IF Contains(config, args[k].dest)
                                         THEN Some(config[args[k].dest]) ELSE nullopt)}
  IN IF failing = {} THEN nullopt
     ELSE LET spec == args[CHOOSE k \in failing : \A m \in failing : k <= m]
              thrown == ValidatorCheck(spec.validator,
                                       IF Contains(config, spec.dest)
                                         THEN Some(config[spec.dest]) ELSE nullopt)
          IN IF thrown = "validate::Error" THEN Some(Error("ValidationError", spec.dest))
             ELSE Some([kind |-> "Error", error |-> thrown, name |-> spec.dest])

\* post_process at level node, then down the resolved command path: the final config or the Error
RECURSIVE post_process(_, _, _, _, _)
post_process(config, node, command_path, path_index, env) ==
  LET e == apply_env(config, node.args, env, 1, {})
  IN IF has_value(e.err) THEN value_of(e.err)
     ELSE LET d == apply_defaults(e.config, node.args, 1, {})
              v == run_validators(d.config, node.args)
          IN IF has_value(v) THEN value_of(v)
             ELSE IF path_index < Len(command_path)
                       /\ has_value(find_command(node.commands, command_path[path_index + 1]))
               THEN post_process(d.config,
                      node.commands[value_of(find_command(node.commands, command_path[path_index + 1]))],
                      command_path, path_index + 1, env)
               ELSE [kind |-> "Config", config |-> d.config]

\* mutant: only a help request returns before post-processing
ShortCircuitsHelpOnly(level_result) == level_result.kind = "HelpRequest"

\* what parse does with the root's level_result before post-processing: requests return at once
ShortCircuits(level_result) ==
  level_result.kind \in {"HelpRequest", "ManpageRequest", "VersionRequest"}

\* parse(root, args, env) as a function: the ParseResult, or the Error it throws
parse(spec, args, env) ==
  LET level_result == parse_level(spec.args, spec.commands, args, 0, TRUE, spec.version)
  IN IF level_result.kind = "Error" THEN level_result
     ELSE IF ShortCircuits(level_result) THEN level_result
     ELSE IF level_result.kind # "LevelOk" THEN Error("std::bad_variant_access", <<>>)
     ELSE LET p == post_process(level_result.config, spec, level_result.command_path, 0, env)
          IN IF p.kind = "Error" THEN p ELSE ParseOk(p.config, level_result.command_path)

\* run, given what parse did: catch (const parse::Error &) returns 1, any other exception
\* leaves run; requests return 0 and Ok returns what main_fn returns
run(outcome) ==
  IF outcome.kind = "Error"
    THEN IF ExceptionType(outcome) = "parse::Error" THEN [exit |-> 1]
         ELSE [uncaught |-> ExceptionType(outcome)]
  ELSE IF outcome.kind = "ParseOk" THEN [main_fn |-> outcome.config]
  ELSE [exit |-> 0]

\* r.config.dump(): nlohmann's serializer throws type_error when a string of the value holds
\* a byte sequence that is not valid UTF-8; else the JSON text, kept as the value it encodes
dump(config) ==
  LET strings(j) == IF DOMAIN j = {"str"} THEN {j.str}
                    ELSE IF IsArr(j)
                      THEN {j.arr[n].str : n \in {m \in DOMAIN j.arr : DOMAIN j.arr[m] = {"str"}}}
                    ELSE {}
  IN IF \E key \in DOMAIN config : \E str \in strings(config[key]) :
          \E n \in 1..Len(str) : str[n] = "0xFF"
       THEN [throws |-> "json::type_error"]
       ELSE [text |-> config]

\* jcmd_run, given what parse did on a loaded definition: as run, but main_fn is called with
\* the dumped config, and nothing catches what dump throws
jcmd_run(outcome) ==
  IF outcome.kind = "Error"
    THEN IF ExceptionType(outcome) = "parse::Error" THEN [exit |-> 1]
         ELSE [uncaught |-> ExceptionType(outcome)]
  ELSE IF outcome.kind = "ParseOk"
    THEN IF "throws" \in DOMAIN dump(outcome.config)
           THEN [uncaught |-> dump(outcome.config).throws]
           ELSE [main_fn |-> dump(outcome.config).text]
  ELSE [exit |-> 0]

\* ---------------------------------------------------------------------------
\* The parse call as a state machine
\* ---------------------------------------------------------------------------

VARIABLES
  root,             \* the cmd::RootSpec passed to parse
  tokens,           \* the args vector passed to parse
  env,              \* the environment behind the EnvLookup passed to parse
  pc,               \* where the call is: "parse_level", "returned", "apply_env",
                    \* "apply_defaults", "run_validators", "descend", "done", "error"
  frames,           \* the active parse_level invocations, the root's first
  returned,         \* the LevelResult a parse_level invocation has just returned
  level_result,     \* parse's local level_result, once the root invocation returned
  post,             \* post_process's arguments: config, command_path, path_index, and the
                    \* level (chain of command names) whose args it is working on
  result,           \* the ParseResult parse returned
  error,            \* the exception parse threw
  roles,            \* per token, what the level parser used it as
  env_reads,        \* the calls made to the EnvLookup: <<level, arg index, variable>>
  defaults_applied, \* the arguments apply_defaults wrote a default for: <<level, arg index>>
  post_calls        \* the post-processing functions invoked so far: <<function, level>>

vars ==
  <<root, tokens, env, pc, frames, returned, level_result, post, result, error, roles,
    env_reads, defaults_applied, post_calls>>

Init ==
  /\ root \in Roots
  /\ tokens \in TokenVectors
  /\ env \in Envs
  /\ pc = "parse_level"
  /\ frames = <<Frame(<<>>, root.args, 0, TRUE, root.version)>>
  /\ returned = nullopt
  /\ level_result = nullopt
  /\ post = [config |-> EmptyObject, command_path |-> <<>>, path_index |-> 0, level |-> <<>>]
  /\ result = nullopt
  /\ error = nullopt
  /\ roles = [k \in 1..Len(tokens) |-> NoRole]
  /\ env_reads = {}
  /\ defaults_applied = {}
  /\ post_calls = <<>>

\* the running parse_level invocation and the command whose args it parses
Top == frames[Len(frames)]

\* mutant: every level looks its option names up among the root's arguments
NodeWithRootArgs == [CommandAt(root, Top.level) EXCEPT !.args = root.args]

Node == CommandAt(root, Top.level)

PostNode == CommandAt(root, post.level)

\* carry out the outcome of a step of the running invocation
Apply(o) ==
  /\ roles' = [k \in DOMAIN roles |->
                 IF \E m \in o.marks : m[1] = k - 1
                   THEN (CHOOSE m \in o.marks : m[1] = k - 1)[2] ELSE roles[k]]
  /\ CASE o.tag = "continue" ->
            /\ frames' = [frames EXCEPT ![Len(frames)] = o.fr]
            /\ pc' = "parse_level"
            /\ returned' = nullopt
            /\ error' = error
       [] o.tag = "call" ->
            /\ frames' = Append([frames EXCEPT ![Len(frames)] = o.fr], o.child)
            /\ pc' = "parse_level"
            /\ returned' = nullopt
            /\ error' = error
       [] o.tag = "return" ->
            /\ frames' = SubSeq(frames, 1, Len(frames) - 1)
            /\ pc' = "returned"
            /\ returned' = Some(o.res)
            /\ error' = error
       [] o.tag = "throw" ->
            /\ frames' = <<>>
            /\ pc' = "error"
            /\ returned' = nullopt
            /\ error' = Some(o.err)
  /\ UNCHANGED <<root, tokens, env, level_result, post, result, env_reads, defaults_applied,
                 post_calls>>

\* the loop is at a token that the given branch of the body handles
At(branch) ==
  /\ pc = "parse_level"
  /\ Top.i < Len(tokens)
  /\ BranchOf(Top, Node.commands, tokens[Top.i + 1]) = branch

ScanDoubleDash == At("DoubleDash") /\ Apply(DoubleDash(Top))

\* mutant: --help is granted only when nothing follows it
ScanHelpWhenLast ==
  /\ At("Help")
  /\ Apply(IF Top.i + 1 < Len(tokens)
             THEN Throw(Error("UnexpectedPositional", tokens[Top.i + 2]), Help(Top).marks)
             ELSE Help(Top))

ScanHelp == At("Help") /\ Apply(Help(Top))

ScanHelpMan == At("HelpMan") /\ Apply(HelpMan(Top))

ScanVersion == At("Version") /\ Apply(Version(Top))

ScanLongOption == At("LongOption") /\ Apply(LongOption(Top, Node.args, tokens))

ScanShortGroup == At("ShortGroup") /\ Apply(ShortGroup(Top, Node.args, tokens))

EnterSubcommand == At("Subcommand") /\ Apply(Subcommand(Top, Node.commands, tokens))

ScanPositional == At("Positional") /\ Apply(Positional(Top, Node.args, tokens))

\* the while loop ends: return LevelOk{config, command_path, i}
LevelReturn ==
  /\ pc = "parse_level"
  /\ Top.i >= Len(tokens)
  /\ Apply(Return(LevelOk(Top.config, Top.command_path, Top.i), {}))

\* the recursive call returned to the invocation that made it
SubcommandReturn ==
  /\ pc = "returned"
  /\ frames # <<>>
  /\ Apply(AfterSubcommand(Top, value_of(returned)))

\* the root invocation returned to parse
ParseReturn ==
  /\ pc = "returned"
  /\ frames = <<>>
  /\ level_result' = returned
  /\ LET lr == value_of(returned)
     IN IF ShortCircuits(lr)
          THEN /\ result' = Some(lr)
               /\ pc' = "done"
               /\ UNCHANGED <<post, error>>
          ELSE IF lr.kind # "LevelOk"
            THEN /\ error' = Some(Error("std::bad_variant_access", <<>>))
                 /\ pc' = "error"
                 /\ UNCHANGED <<post, result>>
            ELSE /\ post' = [config |-> lr.config, command_path |-> lr.command_path,
                             path_index |-> 0, level |-> <<>>]
                 /\ pc' = "apply_env"
                 /\ UNCHANGED <<result, error>>
  /\ UNCHANGED <<root, tokens, env, frames, returned, roles, env_reads, defaults_applied,
                 post_calls>>

ApplyEnv ==
  /\ pc = "apply_env"
  /\ LET e == apply_env(post.config, PostNode.args, env, 1, {})
     IN /\ env_reads' = env_reads \cup {<<post.level, r[1], r[2]>> : r \in e.reads}
        /\ IF has_value(e.err)
             THEN /\ error' = e.err
                  /\ pc' = "error"
                  /\ post' = post
             ELSE /\ post' = [post EXCEPT !.config = e.config]
                  /\ pc' = "apply_defaults"
                  /\ error' = error
  /\ post_calls' = Append(post_calls, <<"apply_env", post.level>>)
  /\ UNCHANGED <<root, tokens, env, frames, returned, level_result, result, roles,
                 defaults_applied>>

\* mutant: post_process goes from apply_env to run_validators
ApplyDefaultsSkipped ==
  /\ pc = "apply_defaults"
  /\ pc' = "run_validators"
  /\ post_calls' = Append(post_calls, <<"apply_defaults", post.level>>)
  /\ UNCHANGED <<root, tokens, env, frames, returned, level_result, post, result, error, roles,
                 env_reads, defaults_applied>>

ApplyDefaults ==
  /\ pc = "apply_defaults"
  /\ LET d == apply_defaults(post.config, PostNode.args, 1, {})
     IN /\ post' = [post EXCEPT !.config = d.config]
        /\ defaults_applied' = defaults_applied \cup {<<post.level, j>> : j \in d.applied}
  /\ pc' = "run_validators"
  /\ post_calls' = Append(post_calls, <<"apply_defaults", post.level>>)
  /\ UNCHANGED <<root, tokens, env, frames, returned, level_result, result, error, roles,
                 env_reads>>

RunValidators ==
  /\ pc = "run_validators"
  /\ LET v == run_validators(post.config, PostNode.args)
     IN IF has_value(v)
          THEN /\ error' = v
               /\ pc' = "error"
          ELSE /\ error' = error
               /\ pc' = "descend"
  /\ post_calls' = Append(post_calls, <<"run_validators", post.level>>)
  /\ UNCHANGED <<root, tokens, env, frames, returned, level_result, post, result, roles,
                 env_reads, defaults_applied>>

\* mutant: the recursion takes the first command of the level, whatever the path names
DescendIntoFirst ==
  /\ pc = "descend"
  /\ IF /\ post.path_index < Len(post.command_path)
        /\ PostNode.commands # <<>>
       THEN /\ post' = [post EXCEPT !.path_index = @ + 1,
                                    !.level = Append(@, PostNode.commands[1].name)]
            /\ pc' = "apply_env"
            /\ result' = result
       ELSE /\ result' = Some(ParseOk(post.config, post.command_path))
            /\ pc' = "done"
            /\ post' = post
  /\ UNCHANGED <<root, tokens, env, frames, returned, level_result, error, roles, env_reads,
                 defaults_applied, post_calls>>

\* the tail of post_process: recurse into the command the path names, if any; when the
\* recursion is over parse returns ParseOk
Descend ==
  /\ pc = "descend"
  /\ IF /\ post.path_index < Len(post.command_path)
        /\ has_value(find_command(PostNode.commands, post.command_path[post.path_index + 1]))
       THEN /\ post' = [post EXCEPT !.path_index = @ + 1,
                                    !.level = Append(@, post.command_path[post.path_index + 1])]
            /\ pc' = "apply_env"
            /\ result' = result
       ELSE /\ result' = Some(ParseOk(post.config, post.command_path))
            /\ pc' = "done"
            /\ post' = post
  /\ UNCHANGED <<root, tokens, env, frames, returned, level_result, error, roles, env_reads,
                 defaults_applied, post_calls>>

Next ==
  \/ ScanDoubleDash
  \/ ScanHelp
  \/ ScanHelpMan
  \/ ScanVersion
  \/ ScanLongOption
  \/ ScanShortGroup
  \/ EnterSubcommand
  \/ ScanPositional
  \/ LevelReturn
  \/ SubcommandReturn
  \/ ParseReturn
  \/ ApplyEnv
  \/ ApplyDefaults
  \/ RunValidators
  \/ Descend

Spec == Init /\ [][Next]_vars

\* the same call on the second command tree
KitInit ==
  /\ root \in KitRoots
  /\ tokens \in KitTokenVectors
  /\ env \in KitEnvs
  /\ pc = "parse_level"
  /\ frames = <<Frame(<<>>, root.args, 0, TRUE, root.version)>>
  /\ returned = nullopt
  /\ level_result = nullopt
  /\ post = [config |-> EmptyObject, command_path |-> <<>>, path_index |-> 0, level |-> <<>>]
  /\ result = nullopt
  /\ error = nullopt
  /\ roles = [k \in 1..Len(tokens) |-> NoRole]
  /\ env_reads = {}
  /\ defaults_applied = {}
  /\ post_calls = <<>>

KitSpec == KitInit /\ [][Next]_vars

\* the same call on the third command tree
MixInit ==
  /\ root = MixRoot
  /\ tokens \in UNION { [1..n -> MixTokenVocab] : n \in 0..MaxTokens }
  /\ env \in { [v \in {S_KEY} |-> key] : key \in {nullopt, Some(S_e)} }
  /\ pc = "parse_level"
  /\ frames = <<Frame(<<>>, root.args, 0, TRUE, root.version)>>
  /\ returned = nullopt
  /\ level_result = nullopt
  /\ post = [config |-> EmptyObject, command_path |-> <<>>, path_index |-> 0, level |-> <<>>]
  /\ result = nullopt
  /\ error = nullopt
  /\ roles = [k \in 1..Len(tokens) |-> NoRole]
  /\ env_reads = {}
  /\ defaults_applied = {}
  /\ post_calls = <<>>

MixSpec == MixInit /\ [][Next]_vars

\* the outcome of the finished call: the ParseResult returned or the Error thrown
Finished == pc \in {"done", "error"}

Outcome == IF pc = "done" THEN value_of(result) ELSE value_of(error)

\* the state machine computes the function parse
OutcomeIsParse == Finished => Outcome = parse(root, tokens, env)

\* ---------------------------------------------------------------------------
\* Properties
\* ---------------------------------------------------------------------------

Requests == {"HelpRequest", "ManpageRequest", "VersionRequest"}

\* parse returned Ok
ReturnedOk == pc = "done" /\ value_of(result).kind = "ParseOk"

\* the levels of a resolved command path: the root and every command the path names
LevelsOf(command_path) == {SubSeq(command_path, 1, n) : n \in 0..Len(command_path)}

\* position k (1-based) supplied a value for argument j (1-based) of level L: as the token
\* following the option, or inline after '='
SuppliesValue(k, L, j) ==
  /\ roles[k].level = L
  /\ roles[k].args = <<j - 1>>
  /\ \/ roles[k].kind = "value"
     \/ roles[k].kind = "long" /\ has_value(split_long_option(tokens[k]).value)

\* the raw text position k supplied
SuppliedText(k) ==
  IF roles[k].kind = "value" THEN tokens[k] ELSE value_of(split_long_option(tokens[k]).value)

GivenOnCommandLine(L, j) == \E k \in DOMAIN roles : SuppliesValue(k, L, j)

\* the converted values given on the command line for option j of level L, in order
RECURSIVE CommandLineValues(_, _, _)
CommandLineValues(L, j, from) ==
  IF from > Len(tokens) THEN <<>>
  ELSE (IF SuppliesValue(from, L, j)
          THEN <<value_of(ConverterParse(CommandAt(root, L).args[j].converter, SuppliedText(from)))>>
          ELSE <<>>) \o CommandLineValues(L, j, from + 1)

\* the precedence law for option j of level L in the config of an Ok result
Precedence(config, L, j) ==
  LET spec == CommandAt(root, L).args[j]
      given == CommandLineValues(L, j, 1)
      from_env == IF has_value(spec.env) THEN EnvLookup(env, value_of(spec.env)) ELSE nullopt
      looked_up == \E r \in env_reads : r[1] = L /\ r[2] = j - 1
      defaulted == <<L, j - 1>> \in defaults_applied
  IN IF given # <<>>
       THEN /\ Contains(config, spec.dest)
            /\ config[spec.dest] = IF spec.repeated THEN JArr(given) ELSE given[Len(given)]
            /\ ~looked_up
            /\ ~defaulted
     ELSE IF has_value(from_env)
       THEN /\ Contains(config, spec.dest)
            /\ config[spec.dest] = value_of(ConverterParse(spec.converter, value_of(from_env)))
            /\ ~defaulted
     ELSE IF has_value(spec.default_value)
       THEN Contains(config, spec.dest) /\ config[spec.dest] = value_of(spec.default_value)
     ELSE ~Contains(config, spec.dest)

\* the options of the levels of a resolved path, as <<level, 1-based argument index>>
OptionsOn(command_path) ==
  UNION { {<<L, j>> : j \in {n \in 1..Len(CommandAt(root, L).args) :
                               CommandAt(root, L).args[n].type = "Option"}} :
          L \in LevelsOf(command_path) }

\* no other argument of the levels of the path stores under the same dest
DestUnshared(command_path, L, j) ==
  \A L2 \in LevelsOf(command_path) : \A j2 \in 1..Len(CommandAt(root, L2).args) :
    (L2 # L \/ j2 # j) => CommandAt(root, L2).args[j2].dest # CommandAt(root, L).args[j].dest

\* C1 as stated: in every Ok result, every Option of every level on the resolved command path
\* obeys the precedence law: a command-line value is what the config holds, and neither the
\* environment nor the default is consulted; else a set environment variable gives the value
\* and the default is not used; else the declared default, or absence.
C1_PrecedenceEveryOption ==
  ReturnedOk =>
    \A o \in OptionsOn(value_of(result).command_path) :
      Precedence(value_of(result).config, o[1], o[2])

\* C1 amended: the precedence law holds in every Ok result for every Option on the resolved
\* command path whose dest no other argument of the levels of that path shares.
C1_PrecedenceUnsharedDest ==
  ReturnedOk =>
    \A o \in OptionsOn(value_of(result).command_path) :
      DestUnshared(value_of(result).command_path, o[1], o[2])
        => Precedence(value_of(result).config, o[1], o[2])

\* an Ok result where an option with a set environment variable and a declared default was
\* given on the command line, and another one took its value from the environment
C1_Witness ==
  /\ ReturnedOk
  /\ GivenOnCommandLine(<<>>, 2)
  /\ has_value(EnvLookup(env, S_OUT))
  /\ has_value(root.args[2].default_value)
  /\ value_of(result).command_path = <<S_sub>>
  /\ ~GivenOnCommandLine(<<S_sub>>, 2)

\* position k holds a -- that was scanned as the options terminator
ScannedDoubleDash(k) == roles[k].kind = "ddash"

\* C2: once a literal -- has been scanned at a level, every later token is handled as a
\* positional of that level, whatever its shape: none acts as an option, a reserved request, a
\* second terminator or a subcommand, the parse returns no request, and the only failures the
\* token scan can then raise are those of positional handling.
C2_DoubleDashBoundary ==
  \A k \in DOMAIN roles : ScannedDoubleDash(k) =>
    /\ \A j \in (k + 1)..Len(tokens) :
         /\ roles[j].kind \in {"none", "positional"}
         /\ roles[j].kind = "positional" => roles[j].level = roles[k].level
         /\ pc \in {"apply_env", "done"} => roles[j].kind = "positional"
    /\ pc = "done" => value_of(result).kind = "ParseOk"
    /\ pc = "error" /\ post_calls = <<>> =>
         value_of(error).error \in {"UnexpectedPositional", "ConversionError"}

\* an Ok result where, after a scanned --, a token shaped like an option, a reserved request,
\* a terminator or a subcommand name was taken as a positional
C2_Witness ==
  \E k \in DOMAIN roles : \E j \in DOMAIN roles :
    /\ ScannedDoubleDash(k)
    /\ k < j
    /\ roles[j].kind = "positional"
    /\ tokens[j] \in {T_help, T_helpman, T_version, T_dd, T_a, S_sub}
    /\ ReturnedOk

\* the characters of a short group after the dash, as separate one-character groups
SeparateGroups(token) == [c \in 1..(Len(token) - 1) |-> <<"-", token[c + 1]>>]

\* tokens with the group at position k replaced by its separate one-character groups
Ungrouped(k) ==
  SubSeq(tokens, 1, k - 1) \o SeparateGroups(tokens[k]) \o SubSeq(tokens, k + 1, Len(tokens))

\* what the level that scanned position k finds under the c-th character after the dash
GroupMatch(k, c) ==
  lookup(build_index(CommandAt(root, roles[k].level).args, 1), <<"-", tokens[k][c + 1]>>)

GroupMatchKind(k, c) ==
  IF has_value(GroupMatch(k, c)) THEN value_of(GroupMatch(k, c)).kind ELSE "none"

\* position k was scanned as a short group -x1...xnc: flags (or flag-group entries) x1..xn,
\* n >= 1, then an Option c
FlagsThenOption(k) ==
  /\ roles[k].kind = "short"
  /\ Len(tokens[k]) >= 3
  /\ \A c \in 1..(Len(tokens[k]) - 2) : GroupMatchKind(k, c) \in {"Flag", "FlagGroup"}
  /\ GroupMatchKind(k, Len(tokens[k]) - 1) = "Option"

OptionNotLast(k) ==
  /\ roles[k].kind = "short"
  /\ \E c \in 1..(Len(tokens[k]) - 2) :
       /\ GroupMatchKind(k, c) = "Option"
       /\ \A b \in 1..(c - 1) : GroupMatchKind(k, b) \in {"Flag", "FlagGroup"}

RECURSIVE EnteredFrom(_)
EnteredFrom(from) ==
  IF from > Len(tokens) THEN <<>>
  ELSE (IF roles[from].kind = "subcmd" THEN <<tokens[from]>> ELSE <<>>) \o EnteredFrom(from + 1)

Entered == EnteredFrom(1)

IsPrefix(p, q) == Len(p) <= Len(q) /\ SubSeq(q, 1, Len(p)) = p

\* position k was reached by the loop of a level whose options were not terminated, and its
\* token is a non-option token naming a child command of that level
NamesChild(k) ==
  /\ roles[k].kind \notin {"none", "value"}
  /\ classify_token(tokens[k]) = "Positional"
  /\ has_value(find_command(CommandAt(root, roles[k].level).commands, tokens[k]))
  /\ \A m \in 1..(k - 1) : ~(roles[m].kind = "ddash" /\ roles[m].level = roles[k].level)

\* C5: while options are not terminated at a level, a non-option token equal to the name of
\* one of the level's child commands enters that child, with or without an unfilled positional
\* slot: it is never taken as a positional, every later token is scanned at or below the
\* child, and the command_path of the final Ok result is the sequence of the names entered.
C5_SubcommandBeforePositional ==
  /\ \A k \in DOMAIN roles : NamesChild(k) =>
       /\ roles[k].kind = "subcmd"
       /\ \A j \in (k + 1)..Len(tokens) :
            roles[j].kind # "none" => IsPrefix(Append(roles[k].level, tokens[k]), roles[j].level)
  /\ ReturnedOk => value_of(result).command_path = Entered
  /\ pc = "parse_level" /\ Top.i < Len(tokens) => Top.level = Entered

\* an Ok result with path [sub] although the root's positional slot was never filled
C5_Witness ==
  /\ ReturnedOk
  /\ value_of(result).command_path = <<S_sub>>
  /\ ~Contains(value_of(result).config, S_file)
  /\ root.args[4].type = "Positional"

\* C6: when --help (or --help-man) is scanned at a level reached through the subcommand
\* names s1..sn, the parse returns HelpRequest (ManpageRequest) with command_path [s1,...,sn];
\* and every such request returned comes from such a scan.
C6_RequestPath ==
  /\ \A k \in DOMAIN roles :
       /\ roles[k].kind \in {"help", "helpman"} => roles[k].level = Entered
       /\ roles[k].kind = "help" /\ Finished =>
            pc = "done" /\ value_of(result) = HelpRequest(Entered)
       /\ roles[k].kind = "helpman" /\ Finished =>
            pc = "done" /\ value_of(result) = ManpageRequest(Entered)
  /\ pc = "done" /\ value_of(result).kind = "HelpRequest" =>
       \E k \in DOMAIN roles : roles[k].kind = "help"
  /\ pc = "done" /\ value_of(result).kind = "ManpageRequest" =>
       \E k \in DOMAIN roles : roles[k].kind = "helpman"

\* a ManpageRequest returned from nesting depth 2
C6_Witness ==
  /\ pc = "done"
  /\ value_of(result) = ManpageRequest(<<S_sub, S_leaf>>)

\* C7: the post-processor runs only after a full successful token parse: a request returned
\* by the root level is the result of parse as it is, with no environment lookup made and no
\* default or validator applied at any level; post-processing only ever starts from a LevelOk
\* that consumed every token.
C7_RequestsBypassPostProcessing ==
  /\ has_value(level_result) /\ value_of(level_result).kind \in Requests =>
       pc = "done" /\ result = level_result
  /\ has_value(result) /\ value_of(result).kind \in Requests =>
       post_calls = <<>> /\ env_reads = {} /\ defaults_applied = {}
  /\ post_calls # <<>> \/ env_reads # {} \/ defaults_applied # {} =>
       /\ has_value(level_result)
       /\ value_of(level_result).kind = "LevelOk"
       /\ value_of(level_result).next_pos = Len(tokens)

\* a HelpRequest for the leaf command, whose required positional was not given
C7_Witness ==
  /\ pc = "done"
  /\ value_of(result) = HelpRequest(<<S_sub, S_leaf>>)
  /\ CommandAt(root, <<S_sub, S_leaf>>).args[2].validator = "required"
  /\ \A k \in DOMAIN roles : roles[k].kind # "positional"
  /\ post_calls = <<>>

NoDoubleDashBefore(k) == \A m \in 1..(k - 1) : tokens[m] # T_dd

\* position k holds a reserved token: --help, --help-man, or --version with no subcommand
\* entered before it
ReservedAt(k) ==
  \/ tokens[k] \in {T_help, T_helpman}
  \/ tokens[k] = T_version /\ \A m \in 1..(k - 1) : roles[m].kind # "subcmd"

\* the outcome the reserved token at position k asks for
RequestGranted(k) ==
  CASE tokens[k] = T_help -> pc = "done" /\ value_of(result).kind = "HelpRequest"
    [] tokens[k] = T_helpman -> pc = "done" /\ value_of(result).kind = "ManpageRequest"
    [] tokens[k] = T_version ->
         IF has_value(root.version) THEN pc = "done" /\ value_of(result) = VersionRequest
         ELSE pc = "error" /\ value_of(error).error = "MissingVersion"

RequestRole(k) ==
  CASE tokens[k] = T_help -> "help" [] tokens[k] = T_helpman -> "helpman"
    [] tokens[k] = T_version -> "version"

\* C8 as stated: a reserved token at any position not preceded by a -- token is treated as the
\* reserved request whenever the parse gets to it: it is never consumed as something else,
\* such as the value of a preceding option.
C8_ReservedNeverConsumed ==
  \A k \in DOMAIN roles :
    ReservedAt(k) /\ NoDoubleDashBefore(k) /\ roles[k].kind # "none" =>
      roles[k].kind = RequestRole(k)

\* C8 amended: a reserved token not preceded by a -- token is treated as the reserved request
\* whenever the scan of a level reaches it, that is unless it is consumed as the value of a
\* preceding option given without inline value; the parse then returns the corresponding
\* request (for --version without a declared version it fails with MissingVersion).
C8_ReservedWhenScanned ==
  \A k \in DOMAIN roles :
    ReservedAt(k) /\ NoDoubleDashBefore(k) /\ roles[k].kind \notin {"none", "value"} =>
      /\ roles[k].kind = RequestRole(k)
      /\ Finished => RequestGranted(k)

\* --help recognized after other tokens, among them a subcommand name, and granted
C8_Witness ==
  \E k \in DOMAIN roles :
    /\ k = 3
    /\ tokens[k] = T_help
    /\ roles[k].kind = "help"
    /\ roles[1].kind = "short"
    /\ roles[2].kind = "subcmd"
    /\ pc = "done"

\* argument j (1-based) of level L is a Flag or Option declared under a reserved long name
ReservedNamed(L, j) ==
  LET spec == CommandAt(root, L).args[j]
  IN /\ spec.type \in {"Flag", "Option"}
     /\ \E n \in 1..Len(spec.names) :
          \/ spec.names[n] \in {S_help, S_helpman}
          \/ spec.names[n] = S_version /\ L = <<>>

\* position k was scanned as an option token that selected an argument with a reserved name
SelectsReservedNamed(k) ==
  /\ roles[k].kind \in {"long", "short"}
  /\ \E n \in 1..Len(roles[k].args) : ReservedNamed(roles[k].level, roles[k].args[n] + 1)

\* C9 as stated: an argument declared with the long name help or help-man (or version at the
\* root) is unreachable: no token of any token list selects it.
C9_ReservedNameUnreachable == \A k \in DOMAIN roles : ~SelectsReservedNamed(k)

\* C9 amended: an argument declared with the long name help or help-man (or version at the
\* root) is never selected by the token --help, --help-man (or root --version) itself, because
\* the reserved-token checks run before the name-index lookup; a token that does select it
\* under that name carries an inline value (--help=<text>), which the reserved checks, being
\* comparisons with the whole token, let through.
C9_ReservedTokenNeverSelects ==
  \A k \in DOMAIN roles : SelectsReservedNamed(k) =>
    /\ tokens[k] \notin {T_help, T_helpman}
    /\ ~(tokens[k] = T_version /\ roles[k].level = <<>>)
    /\ roles[k].kind = "long"
         /\ split_long_option(tokens[k]).name \in {S_help, S_helpman, S_version}
         => has_value(split_long_option(tokens[k]).value)

\* the root's option named help was set by --help=v, and a later --help was the request
C9_Witness ==
  /\ pc = "done"
  /\ value_of(result) = HelpRequest(<<>>)
  /\ \E k \in DOMAIN roles :
       /\ SelectsReservedNamed(k)
       /\ tokens[k] = T_helpeq
       /\ k < Len(tokens)
       /\ tokens[k + 1] = T_help
       /\ roles[k + 1].kind = "help"

\* C10: a --version token scanned at the root before any -- returns VersionRequest when the
\* root declares a version and fails with MissingVersion when it does not; scanned at a
\* subcommand level it is an ordinary long option of that level (set when declared there,
\* UnknownOption when not), and VersionRequest is only ever produced by the root level.
C10_VersionRootOnly ==
  /\ \A k \in DOMAIN roles :
       tokens[k] = T_version /\ roles[k].kind \notin {"none", "value", "positional"} =>
         IF roles[k].level = <<>>
           THEN /\ roles[k].kind = "version"
                /\ Finished =>
                     IF has_value(root.version)
                       THEN pc = "done" /\ value_of(result) = VersionRequest
                       ELSE pc = "error" /\ value_of(error).error = "MissingVersion"
           ELSE /\ roles[k].kind = "long"
                /\ ~has_value(lookup(build_index(CommandAt(root, roles[k].level).args, 1), T_version))
                     => pc = "error" /\ value_of(error).error = "UnknownOption"
                /\ has_value(lookup(build_index(CommandAt(root, roles[k].level).args, 1), T_version))
                     => roles[k].args # <<>>
  /\ has_value(returned) /\ value_of(returned) = VersionRequest => frames = <<>>
  /\ has_value(result) /\ value_of(result) = VersionRequest =>
       /\ has_value(root.version)
       /\ \E k \in DOMAIN roles : roles[k].kind = "version" /\ roles[k].level = <<>>
  /\ has_value(error) /\ value_of(error).error = "MissingVersion" => ~has_value(root.version)

\* --version given to the subcommand sub set sub's flag named version in an Ok result
C10_Witness ==
  /\ ReturnedOk
  /\ \E k \in DOMAIN roles :
       /\ tokens[k] = T_version
       /\ roles[k].kind = "long"
       /\ roles[k].level = <<S_sub>>
  /\ value_of(result).config[S_version] = JBool(TRUE)

\* the arguments <<level, 1-based index>> of the levels of a path that are Options or
\* Positionals validated by required()
RequiredOn(command_path) ==
  UNION { {<<L, j>> : j \in {n \in 1..Len(CommandAt(root, L).args) :
                               /\ CommandAt(root, L).args[n].type \in {"Option", "Positional"}
                               /\ \E q \in DOMAIN ValidatorParts(CommandAt(root, L).args[n].validator) :
                                    ValidatorParts(CommandAt(root, L).args[n].validator)[q] = "required"}} :
          L \in LevelsOf(command_path) }

\* a token was stored as positional j of level L
PositionalGiven(L, j) ==
  \E k \in DOMAIN roles :
    roles[k].kind = "positional" /\ roles[k].level = L /\ roles[k].args = <<j - 1>>

\* argument j of level L has a command-line value, a set environment variable or a default
Supplied(L, j) ==
  LET spec == CommandAt(root, L).args[j]
  IN \/ GivenOnCommandLine(L, j)
     \/ PositionalGiven(L, j)
     \/ spec.type = "Option" /\ has_value(spec.env) /\ has_value(EnvLookup(env, value_of(spec.env)))
     \/ has_value(spec.default_value)

\* run_validators has been called for level L
Validated(L) == \E n \in DOMAIN post_calls : post_calls[n] = <<"run_validators", L>>

\* every call of run_validators directly follows apply_env and apply_defaults of its level
ValidationComesLast ==
  \A n \in DOMAIN post_calls : post_calls[n][1] = "run_validators" =>
    /\ n >= 3
    /\ post_calls[n - 1] = <<"apply_defaults", post_calls[n][2]>>
    /\ post_calls[n - 2] = <<"apply_env", post_calls[n][2]>>

\* the required-argument law for the arguments selected by Covered(L, j)
RequiredLaw(Covered(_, _)) ==
  /\ ValidationComesLast
  /\ ReturnedOk =>
       \A a \in RequiredOn(value_of(result).command_path) :
         /\ Validated(a[1])
         /\ Contains(value_of(result).config, CommandAt(root, a[1]).args[a[2]].dest)
         /\ Covered(a[1], a[2]) => Supplied(a[1], a[2])
  /\ \A a \in RequiredOn(post.command_path) :
       Validated(a[1]) /\ Covered(a[1], a[2]) /\ ~Supplied(a[1], a[2]) =>
         pc = "error" /\ value_of(error).error = "ValidationError"
  /\ pc = "error" /\ value_of(error).error = "ValidationError" =>
       \E a \in RequiredOn(post.command_path) :
         a[1] = post.level /\ Validated(a[1]) /\ ~Supplied(a[1], a[2])

EveryArgument(L, j) == TRUE

OwnDest(L, j) == DestUnshared(post.command_path, L, j)

PostPlan(command_path) ==
  [n \in 1..(3 * (Len(command_path) + 1)) |->
     << <<"apply_env", "apply_defaults", "run_validators">>[((n - 1) % 3) + 1],
        SubSeq(command_path, 1, (n - 1) \div 3) >>]

\* the tokens are used from left to right without a gap
ScannedLeftToRight ==
  \A k \in DOMAIN roles : roles[k].kind # "none" => \A m \in 1..(k - 1) : roles[m].kind # "none"

\* the last post-processing call made
LastPostCall == post_calls[Len(post_calls)]

\* the validator of argument j (1-based) of the level being post-processed accepts the config
ValidatorAccepts(j) ==
  LET spec == PostNode.args[j]
  IN spec.type \in {"Option", "Positional"} =>
       ~ValidatorThrows(spec.validator,
                        IF Contains(post.config, spec.dest) THEN Some(post.config[spec.dest])
                        ELSE nullopt)

\* C12: an error ends the parse with no ParseResult and nothing after it; the steps run in
\* processing order (tokens left to right, then post-processing from the root down the
\* resolved path, each level as environment, defaults, validation), and the error reported is
\* that of the first step that fails: a token error leaves the later tokens unused and
\* post-processing unstarted, a post-processing error comes from the last call made, and a
\* validation failure is that of the first argument in declaration order whose validator throws.
C12_FirstFailureWins ==
  /\ ScannedLeftToRight
  /\ post_calls # <<>> =>
       /\ IsPrefix(post_calls, PostPlan(post.command_path))
       /\ \A k \in DOMAIN roles : roles[k].kind # "none"
  /\ has_value(error) <=> pc = "error"
  /\ pc = "error" =>
       /\ result = nullopt
       /\ frames = <<>>
       /\ ~ENABLED Next
       /\ post_calls = <<>> => env_reads = {} /\ defaults_applied = {}
       /\ post_calls # <<>> =>
            /\ LastPostCall[2] = post.level
            /\ LastPostCall[1] \in {"apply_env", "run_validators"}
            /\ LastPostCall[1] = "apply_env" <=> value_of(error).error = "EnvConversionError"
            /\ LastPostCall[1] = "run_validators" =>
                 \E j \in 1..Len(PostNode.args) :
                   /\ PostNode.args[j].dest = value_of(error).name
                   /\ ~ValidatorAccepts(j)
                   /\ \A m \in 1..(j - 1) : ValidatorAccepts(m)
  /\ has_value(result) => error = nullopt /\ pc = "done"

\* an environment failure reported at the root although the root's required --key, validated
\* later, is missing too, and a later level was never reached
C12_Witness ==
  /\ pc = "error"
  /\ value_of(error).error = "EnvConversionError"
  /\ post_calls = <<<<"apply_env", <<>>>>>>
  /\ post.command_path = <<S_sub>>
  /\ ~Contains(post.config, S_key)
  /\ ~has_value(root.args[3].default_value)
  /\ ~has_value(EnvLookup(env, S_KEY))

\* C13 as stated: every failure of parse is a parse::Error, failures of converters and
\* validators being wrapped, and run turns every failed parse into exit code 1.
C13_OnlyParseErrorEscapes ==
  pc = "error" =>
    /\ ExceptionType(value_of(error)) = "parse::Error"
    /\ run(Outcome) = [exit |-> 1]

\* the pairs of Options on a resolved path that share a dest, the first one at an ancestor
\* level of the second: <<ancestor level, index, child level, index>>
SharedDestPairs(command_path) ==
  {p \in OptionsOn(command_path) \X OptionsOn(command_path) :
     /\ Len(p[1][1]) < Len(p[2][1])
     /\ CommandAt(root, p[1][1]).args[p[1][2]].dest = CommandAt(root, p[2][1]).args[p[2][2]].dest}

Registrants(L, name) ==
  {j \in 0..(Len(CommandAt(root, L).args) - 1) :
     \E n \in DOMAIN ArgInserts(CommandAt(root, L).args[j + 1], j) :
       ArgInserts(CommandAt(root, L).args[j + 1], j)[n].cli_name = name}

\* the CLI-formatted names the option token at position k looks up, in order
NamesLookedUp(k) ==
  IF roles[k].kind = "long" THEN << <<"-", "-">> \o split_long_option(tokens[k]).name >>
  ELSE [c \in 1..(Len(tokens[k]) - 1) |-> <<"-", tokens[k][c + 1]>>]

Largest(S) == CHOOSE x \in S : \A y \in S : x >= y

Smallest(S) == CHOOSE x \in S : \A y \in S : x <= y

\* every lookup an option token made selected the argument Pick chooses among the registrants
SelectsBy(Pick(_)) ==
  \A k \in DOMAIN roles : roles[k].kind \in {"long", "short"} =>
    \A c \in DOMAIN roles[k].args :
      roles[k].args[c] = Pick(Registrants(roles[k].level, NamesLookedUp(k)[c]))

\* C15 as stated: when two arguments of one level register the same CLI-formatted name, a
\* token with that name selects the argument declared later in the level's argument list.
C15_LastRegisteredWins == SelectsBy(Largest)

\* C15 amended: when two arguments of one level register the same CLI-formatted name, the
\* first-registered mapping silently wins: a token with that name selects the argument
\* declared earlier in the level's argument list.
C15_FirstRegisteredWins == SelectsBy(Smallest)

\* -vv, a name the root's flag and its flag group both register, counted the flag twice and
\* left the group at its default
C15_Witness ==
  /\ ReturnedOk
  /\ Cardinality(Registrants(<<>>, <<"-", "v">>)) = 2
  /\ \E k \in DOMAIN roles :
       tokens[k] = T_vv /\ roles[k].kind = "short" /\ roles[k].level = <<>> /\ roles[k].args = <<0, 0>>
  /\ value_of(result).config[S_mode] = JStr(S_n)

\* how many elements of a sequence equal x
RECURSIVE CountIn(_, _)
CountIn(seq, x) ==
  IF seq = <<>> THEN 0 ELSE (IF Head(seq) = x THEN 1 ELSE 0) + CountIn(Tail(seq), x)

\* how often the option tokens from position from on selected argument j (1-based) of level L
RECURSIVE OccurrencesFrom(_, _, _)
OccurrencesFrom(L, j, from) ==
  IF from > Len(tokens) THEN 0
  ELSE (IF roles[from].kind \in {"long", "short"} /\ roles[from].level = L
          THEN CountIn(roles[from].args, j - 1) ELSE 0) + OccurrencesFrom(L, j, from + 1)

Occurrences(L, j) == OccurrencesFrom(L, j, 1)

\* the Flags of the levels of a resolved path, as <<level, 1-based argument index>>
FlagsOn(command_path) ==
  UNION { {<<L, j>> : j \in {n \in 1..Len(CommandAt(root, L).args) :
                               CommandAt(root, L).args[n].type = "Flag"}} :
          L \in LevelsOf(command_path) }

\* C16: in an Ok result a Flag with repeated=true that occurred n >= 1 times at its level,
\* through any of its names and inside short groups, has the integer n as its value; a Flag
\* with repeated false that occurred at least once has the boolean true.
C16_RepeatedFlagCount ==
  ReturnedOk =>
    \A a \in FlagsOn(value_of(result).command_path) :
      LET flag == CommandAt(root, a[1]).args[a[2]]
          n == Occurrences(a[1], a[2])
      IN n >= 1 =>
           value_of(result).config[flag.dest] = IF flag.repeated THEN JInt(n) ELSE JBool(TRUE)

\* the root's repeated flag given as --verbose and as -vv counts 3
C16_Witness ==
  /\ ReturnedOk
  /\ \E k \in DOMAIN roles : tokens[k] = T_verbose /\ roles[k].kind = "long"
  /\ \E k \in DOMAIN roles : tokens[k] = T_vv /\ roles[k].kind = "short"
  /\ root.args[1].repeated
  /\ Occurrences(<<>>, 1) = 3
  /\ value_of(result).config[S_verbose] = JInt(3)

\* a JSON value is valid against a generated schema
ConformsScalar(val, schema) ==
  CASE schema.type = "integer" ->
         /\ DOMAIN val = {"int"}
         /\ "minimum" \in DOMAIN schema => val.int >= schema.minimum
    [] schema.type = "boolean" -> DOMAIN val = {"bool"}
    [] schema.type = "string" -> DOMAIN val = {"str"}
    [] OTHER -> TRUE

Conforms(val, schema) ==
  IF schema.type = "array"
    THEN /\ IsArr(val)
         /\ "items" \in DOMAIN schema =>
              \A n \in DOMAIN val.arr : ConformsScalar(val.arr[n], schema.items)
    ELSE ConformsScalar(val, schema)

\* C17 as stated: in every Ok result the value of a Flag declared repeated is a non-negative
\* integer, the occurrence count when given and 0 when not given, as the generated
\* configuration schema (integer, minimum 0) requires.
C17_RepeatedFlagIsCount ==
  ReturnedOk =>
    \A a \in FlagsOn(value_of(result).command_path) :
      LET flag == CommandAt(root, a[1]).args[a[2]]
      IN flag.repeated =>
           /\ value_of(result).config[flag.dest] = JInt(Occurrences(a[1], a[2]))
           /\ Conforms(value_of(result).config[flag.dest], arg_schema(flag))

\* the Options and Positionals of the levels of a resolved path, as <<level, 1-based index>>
ValuedOn(command_path) ==
  UNION { {<<L, j>> : j \in {n \in 1..Len(CommandAt(root, L).args) :
                               CommandAt(root, L).args[n].type \in {"Option", "Positional"}}} :
          L \in LevelsOf(command_path) }

\* C18 as stated: in every Ok result the value of an Option or Positional declared repeated
\* is, when its dest is present and the command line or the environment supplied it, an array,
\* as the generated configuration schema requires.
C18_RepeatedValueIsArray ==
  ReturnedOk =>
    \A a \in ValuedOn(value_of(result).command_path) :
      LET spec == CommandAt(root, a[1]).args[a[2]]
          config == value_of(result).config
      IN /\ spec.repeated
         /\ Contains(config, spec.dest)
         /\ <<a[1], a[2] - 1>> \notin defaults_applied
         => IsArr(config[spec.dest]) /\ Conforms(config[spec.dest], arg_schema(spec))

\* the spellings of the boolean texts
TruthyTexts == {<<"t", "r", "u", "e">>, <<"T", "r", "u", "e">>, S_TRUE, S_1}

FalsyTexts == {<<"f", "a", "l", "s", "e">>, <<"F", "a", "l", "s", "e">>, <<"F", "A", "L", "S", "E">>, S_0}

\* apply_env has been called for level L
EnvApplied(L) == \E n \in DOMAIN post_calls : post_calls[n] = <<"apply_env", L>>

\* C19: for each Flag with a bound environment variable on the resolved path, once environment
\* fallback has run at its level: a flag given on the command line is not looked up and keeps
\* its command-line value; otherwise the variable is read, and a set variable gives true for
\* true/1 and false for false/0 in any letter case, any other text fails with
\* EnvConversionError, and an unset variable leaves the flag to defaulting (false).
C19_FlagEnvFallback ==
  \A a \in FlagsOn(post.command_path) :
    LET flag == CommandAt(root, a[1]).args[a[2]]
        n == Occurrences(a[1], a[2])
        var == value_of(flag.env)
        val == EnvLookup(env, var)
        read == <<a[1], a[2] - 1, var>> \in env_reads
        defaulted == <<a[1], a[2] - 1>> \in defaults_applied
        final == value_of(result).config[flag.dest]
    IN has_value(flag.env) /\ EnvApplied(a[1]) =>
         IF n >= 1
           THEN /\ ~read
                /\ ~defaulted
                /\ ReturnedOk => final = IF flag.repeated THEN JInt(n) ELSE JBool(TRUE)
         ELSE /\ read
              /\ CASE ~has_value(val) -> ReturnedOk => final = JBool(FALSE) /\ defaulted
                   [] has_value(val) /\ value_of(val) \in TruthyTexts ->
                        /\ ~defaulted
                        /\ pc = "error" => value_of(error).error # "EnvConversionError"
                        /\ ReturnedOk => final = JBool(TRUE)
                   [] has_value(val) /\ value_of(val) \in FalsyTexts ->
                        /\ ~defaulted
                        /\ pc = "error" => value_of(error).error # "EnvConversionError"
                        /\ ReturnedOk => final = JBool(FALSE)
                   [] OTHER ->
                        /\ pc = "error"
                        /\ value_of(error) = Error("EnvConversionError", var)

\* with FLG=TRUE, the root's flag given on the command line kept its count and sub's flag,
\* not given, became true
C19_Witness ==
  /\ ReturnedOk
  /\ value_of(result).command_path = <<S_sub>>
  /\ EnvLookup(env, S_FLG) = Some(S_TRUE)
  /\ Occurrences(<<>>, 1) = 1
  /\ value_of(result).config[S_verbose] = JInt(1)
  /\ Occurrences(<<S_sub>>, 2) = 0
  /\ value_of(result).config[S_q] = JBool(TRUE)

\* the Flags and FlagGroups of the levels of a resolved path, as <<level, 1-based index>>
SwitchesOn(command_path) ==
  UNION { {<<L, j>> : j \in {n \in 1..Len(CommandAt(root, L).args) :
                               CommandAt(root, L).args[n].type \in {"Flag", "FlagGroup"}}} :
          L \in LevelsOf(command_path) }

EqPositions(token) == {n \in 1..Len(token) : token[n] = "="}

\* the option name a long token carries: the text between the leading -- and the first '=',
\* or the end of the token
NameBeforeEq(token) ==
  IF EqPositions(token) = {} THEN SubSeq(token, 3, Len(token))
  ELSE SubSeq(token, 3, Smallest(EqPositions(token)) - 1)

\* the text after the first '=' of a token
TextAfterEq(token) == SubSeq(token, Smallest(EqPositions(token)) + 1, Len(token))

\* this step scans position k as a long option
ScansLong(k) == roles[k] = NoRole /\ roles'[k].kind = "long"

\* this step converts raw for the Option opt of the running level and stores it, or fails
\* with ConversionError under the shown name
ConvertsAndStores(opt, shown, raw) ==
  LET conv == ConverterParse(opt.converter, raw)
      config == Top.config
      before == IF Contains(config, opt.dest) THEN config[opt.dest].arr ELSE <<>>
  IN IF ~has_value(conv)
       THEN pc' = "error" /\ error' = Some(Error("ConversionError", shown))
       ELSE /\ pc' = "parse_level"
            /\ Len(frames') = Len(frames)
            /\ frames'[Len(frames)].config =
                 Put(config, opt.dest,
                     IF opt.repeated THEN JArr(Append(before, value_of(conv))) ELSE value_of(conv))

\* C21: a long token selects the argument registered under the text before its first '='
\* (UnknownOption when there is none); when that argument is an Option and the token has an
\* '=', the value is the text after the first '=' (empty or holding further '=' included) and
\* the next token is left for the scan; when the token has no '=', the next token is consumed
\* as the value, and with no next token the parse fails with MissingOptionValue.
C21_LongOptionValueSource ==
  [][\A k \in DOMAIN roles : ScansLong(k) =>
       LET token == tokens[k]
           shown == <<"-", "-">> \o NameBeforeEq(token)
           found == Registrants(Top.level, shown)
       IN IF found = {}
            THEN pc' = "error" /\ error' = Some(Error("UnknownOption", shown))
            ELSE LET j == Smallest(found)
                     opt == Node.args[j + 1]
                 IN /\ roles'[k] = Role("long", Top.level, <<j>>)
                    /\ opt.type = "Option" =>
                         IF EqPositions(token) # {}
                           THEN /\ ConvertsAndStores(opt, shown, TextAfterEq(token))
                                /\ pc' = "parse_level" => frames'[Len(frames)].i = k
                                /\ k < Len(tokens) => roles'[k + 1] = NoRole
                         ELSE IF k = Len(tokens)
                           THEN pc' = "error" /\ error' = Some(Error("MissingOptionValue", shown))
                         ELSE /\ roles'[k + 1] = Role("value", Top.level, <<j>>)
                              /\ ConvertsAndStores(opt, shown, tokens[k + 1])
                              /\ pc' = "parse_level" => frames'[Len(frames)].i = k + 1]_vars

\* an Ok result where --tag=a=b gave the value a=b and a later --tag took the next token
C21_Witness ==
  /\ ReturnedOk
  /\ tokens = << <<"-", "-", "t", "a", "g", "=", "a", "=", "b">>, <<"-", "-", "t", "a", "g">>, S_x >>
  /\ roles[3].kind = "value"
  /\ value_of(result).config[<<"t", "a", "g">>] = JArr(<<JStr(<<"a", "=", "b">>), JStr(S_x)>>)

\* the value of the entry of a flag group that declares the CLI-formatted name
EntryValue(group, name) ==
  LET hits == {e \in 1..Len(group.entries) :
                 \E n \in 1..Len(group.entries[e].names) : cli_name(group.entries[e].names[n]) = name}
  IN group.entries[Smallest(hits)].value

\* the entry values the option token at position k selected for flag group j (1-based) of its
\* level, in the order of its names, from name c on
RECURSIVE GroupValuesAt(_, _, _)
GroupValuesAt(k, j, c) ==
  IF c > Len(roles[k].args) THEN <<>>
  ELSE (IF roles[k].args[c] = j - 1
          THEN <<EntryValue(CommandAt(root, roles[k].level).args[j], NamesLookedUp(k)[c])>>
          ELSE <<>>) \o GroupValuesAt(k, j, c + 1)

\* the entry values given on the command line for flag group j of level L, in order
RECURSIVE GroupValues(_, _, _)
GroupValues(L, j, from) ==
  IF from > Len(tokens) THEN <<>>
  ELSE (IF roles[from].kind \in {"long", "short"} /\ roles[from].level = L
          THEN GroupValuesAt(from, j, 1) ELSE <<>>) \o GroupValues(L, j, from + 1)

\* the values of the occurrences of Option or FlagGroup j of level L, in command-line order
OccurrenceValues(L, j) ==
  IF CommandAt(root, L).args[j].type = "Option" THEN CommandLineValues(L, j, 1)
  ELSE GroupValues(L, j, 1)

\* config holds, for Option or FlagGroup j of level L, what its occurrences accumulate to
Accumulated(config, L, j) ==
  LET spec == CommandAt(root, L).args[j]
      vals == OccurrenceValues(L, j)
  IN vals # <<>> =>
       /\ Contains(config, spec.dest)
       /\ config[spec.dest] = IF spec.repeated THEN JArr(vals) ELSE vals[Len(vals)]

\* C22: at every moment of the scan the config of each running level holds, for each of its
\* Options and FlagGroups that occurred so far, the value of the last occurrence when it is
\* not repeated and the array of the values of all occurrences in command-line order when it
\* is, and nothing before the first occurrence; the config of an Ok result holds the same for
\* every level of its path.
C22_OccurrenceAccumulation ==
  /\ \A n \in DOMAIN frames :
       \A j \in 1..Len(CommandAt(root, frames[n].level).args) :
         CommandAt(root, frames[n].level).args[j].type \in {"Option", "FlagGroup"} =>
           /\ Accumulated(frames[n].config, frames[n].level, j)
           /\ OccurrenceValues(frames[n].level, j) = <<>> =>
                ~Contains(frames[n].config, CommandAt(root, frames[n].level).args[j].dest)
  /\ ReturnedOk =>
       \A L \in LevelsOf(value_of(result).command_path) :
         \A j \in 1..Len(CommandAt(root, L).args) :
           CommandAt(root, L).args[j].type \in {"Option", "FlagGroup"} =>
             Accumulated(value_of(result).config, L, j)

\* an Ok result where the repeated flag group, given as -b --red -b, collected b, r, b
C22_Witness ==
  /\ ReturnedOk
  /\ tokens = << <<"-", "b">>, <<"-", "-", "r", "e", "d">>, <<"-", "b">> >>
  /\ OccurrenceValues(<<>>, 2) = <<JStr(<<"b">>), JStr(<<"r">>), JStr(<<"b">>)>>
  /\ value_of(result).config[<<"c", "o", "l", "o", "r">>]
       = JArr(<<JStr(<<"b">>), JStr(<<"r">>), JStr(<<"b">>)>>)

\* the declared Positionals of level L (1-based argument indices), and the rank of one of them
\* among them in declaration order
PositionalsOf(L) ==
  {j \in 1..Len(CommandAt(root, L).args) : CommandAt(root, L).args[j].type = "Positional"}

SlotRank(L, j) == Cardinality({m \in PositionalsOf(L) : m <= j})

\* the rank of the first repeated Positional of level L, or one more than the number of slots
AbsorbingRank(L) ==
  LET reps == {SlotRank(L, j) : j \in {m \in PositionalsOf(L) : CommandAt(root, L).args[m].repeated}}
  IN IF reps = {} THEN Cardinality(PositionalsOf(L)) + 1 ELSE Smallest(reps)

\* how many tokens before position p were handled as positionals of level L
PositionalsBefore(L, p) ==
  Cardinality({m \in 1..(p - 1) : roles[m].kind = "positional" /\ roles[m].level = L})

\* the rank of the slot the positional token at position p falls into
SlotRankFor(p) ==
  LET n == PositionalsBefore(roles[p].level, p) + 1
      r == AbsorbingRank(roles[p].level)
  IN IF n <= r THEN n ELSE r

\* the converted tokens stored as positional j of level L, in order, from position from on
RECURSIVE PositionalValues(_, _, _)
PositionalValues(L, j, from) ==
  IF from > Len(tokens) THEN <<>>
  ELSE (IF roles[from].kind = "positional" /\ roles[from].level = L /\ roles[from].args = <<j - 1>>
          THEN <<value_of(ConverterParse(CommandAt(root, L).args[j].converter, tokens[from]))>>
          ELSE <<>>) \o PositionalValues(L, j, from + 1)

\* C23: the n-th token a level handles as a positional (options and their values may lie in
\* between) fills the n-th declared Positional, except that from the first repeated Positional
\* on every further token goes to that one, which collects them in an array in order; a token
\* for which no slot is left fails with UnexpectedPositional naming the token; a Positional
\* that is not repeated holds the one token that filled it.
C23_PositionalSlotsInOrder ==
  /\ \A p \in DOMAIN roles : roles[p].kind = "positional" =>
       LET L == roles[p].level
       IN IF SlotRankFor(p) > Cardinality(PositionalsOf(L))
            THEN /\ roles[p].args = <<>>
                 /\ pc = "error"
                 /\ value_of(error) = Error("UnexpectedPositional", tokens[p])
                 /\ \A m \in (p + 1)..Len(tokens) : roles[m] = NoRole
            ELSE \E j \in PositionalsOf(L) :
                   SlotRank(L, j) = SlotRankFor(p) /\ roles[p].args = <<j - 1>>
  /\ \A n \in DOMAIN frames : \A j \in PositionalsOf(frames[n].level) :
       LET spec == CommandAt(root, frames[n].level).args[j]
           vals == PositionalValues(frames[n].level, j, 1)
       IN IF vals = <<>> THEN ~Contains(frames[n].config, spec.dest)
          ELSE IF spec.repeated THEN frames[n].config[spec.dest] = JArr(vals)
          ELSE Len(vals) = 1 /\ frames[n].config[spec.dest] = vals[1]
  /\ ReturnedOk =>
       \A L \in LevelsOf(value_of(result).command_path) : \A j \in PositionalsOf(L) :
         LET spec == CommandAt(root, L).args[j]
             vals == PositionalValues(L, j, 1)
         IN vals # <<>> =>
              value_of(result).config[spec.dest] = IF spec.repeated THEN JArr(vals) ELSE vals[1]

\* an Ok result where of three positional tokens the first filled src and the repeated rest
\* absorbed the other two in order
C23_Witness ==
  /\ ReturnedOk
  /\ tokens = <<S_x, S_1, S_x>>
  /\ value_of(result).config[<<"s", "r", "c">>] = JStr(S_x)
  /\ value_of(result).config[<<"r", "e", "s", "t">>] = JArr(<<JStr(S_1), JStr(S_x)>>)

\* the subcommand names entered before position k, in order
RECURSIVE EnteredBefore(_, _)
EnteredBefore(k, from) ==
  IF from >= k THEN <<>>
  ELSE (IF roles[from].kind = "subcmd" THEN <<tokens[from]>> ELSE <<>>) \o EnteredBefore(k, from + 1)

\* the levels of the tree: the root and, here, its child commands
AllLevels == {<<>>} \cup {<<root.commands[n].name>> : n \in 1..Len(root.commands)}

\* the name is registered at some level other than L
DeclaredElsewhere(L, name) == \E L2 \in AllLevels \ {L} : Registrants(L2, name) # {}

\* the lookups the option token at position k got to: all of a long token's one name, and of a
\* short group every name up to the first one that is unregistered or selects an Option
LookupsMade(k) ==
  LET names == NamesLookedUp(k)
      stops == {c \in 1..Len(names) :
                  \/ Registrants(roles[k].level, names[c]) = {}
                  \/ CommandAt(root, roles[k].level).args[Smallest(Registrants(roles[k].level, names[c])) + 1].type
                       = "Option"}
  IN IF stops = {} THEN Len(names) ELSE Smallest(stops)

\* C24: an option token is looked up in the name index of the level being parsed, the one
\* reached through the subcommand names before it, and in no other: every argument it selects
\* is declared at that level under the name looked up, and a name not declared at that level
\* fails with UnknownOption, also when an ancestor or a subcommand declares it.
C24_OptionsScopedToLevel ==
  \A k \in DOMAIN roles : roles[k].kind \in {"long", "short"} =>
    LET L == roles[k].level
        names == NamesLookedUp(k)
        made == LookupsMade(k)
    IN /\ L = EnteredBefore(k, 1)
       /\ \A c \in DOMAIN roles[k].args : roles[k].args[c] \in Registrants(L, names[c])
       /\ IF Registrants(L, names[made]) = {}
            THEN /\ Len(roles[k].args) = made - 1
                 /\ pc = "error"
                 /\ value_of(error) = Error("UnknownOption", names[made])
            ELSE Len(roles[k].args) = made

\* --red, which the root declares, failed with UnknownOption after the subcommand name, where
\* sub does not declare it
C24_Witness ==
  /\ pc = "error"
  /\ value_of(error).error = "UnknownOption"
  /\ \E k \in DOMAIN roles :
       /\ roles[k].kind = "long"
       /\ roles[k].level = <<S_sub>>
       /\ Registrants(<<S_sub>>, NamesLookedUp(k)[1]) = {}
       /\ Registrants(<<>>, NamesLookedUp(k)[1]) # {}

\* C25 as stated: run and jcmd_run call the application callback (once, with the config) if
\* and only if the parse yields Ok, and return what it returns; for a HelpRequest,
\* VersionRequest or ManpageRequest they return 0 and for a parse error 1, without calling it.
C25_CallbackIffOk ==
  Finished =>
    /\ ReturnedOk <=> "main_fn" \in DOMAIN run(Outcome)
    /\ ReturnedOk <=> "main_fn" \in DOMAIN jcmd_run(Outcome)
    /\ ReturnedOk => run(Outcome).main_fn = value_of(result).config
    /\ pc = "done" /\ value_of(result).kind \in Requests =>
         run(Outcome) = [exit |-> 0] /\ jcmd_run(Outcome) = [exit |-> 0]
    /\ pc = "error" /\ ExceptionType(value_of(error)) = "parse::Error" =>
         run(Outcome) = [exit |-> 1] /\ jcmd_run(Outcome) = [exit |-> 1]

\* the longest replacement drawn for the tokens after a reserved token
MaxSuffix == 2

\* position k holds a reserved token that the scan of a level got to with options not terminated
ReservedReached(k) ==
  /\ roles[k].kind \notin {"none", "value", "positional"}
  /\ \/ tokens[k] \in {T_help, T_helpman}
     \/ tokens[k] = T_version /\ roles[k].level = <<>>

\* the token sequences tried in place of the tokens after a reserved token
Replacements == UNION { [1..n -> MixTokenVocab] : n \in 0..MaxSuffix }

\* C26: when the scan gets to a reserved token (--help, --help-man, root-level --version),
\* the parse returns the request, and it returns the same request, with the same command_path,
\* for the tokens up to the reserved one followed by any other token sequence: unknown options,
\* excess positionals and values that do not convert included.
C26_RequestIgnoresWhatFollows ==
  \A k \in DOMAIN roles : ReservedReached(k) /\ Finished =>
    /\ pc = "done"
    /\ value_of(result).kind \in Requests
    /\ \A rest \in Replacements : parse(root, SubSeq(tokens, 1, k) \o rest, env) = value_of(result)

\* a HelpRequest for sub although --help is followed by an option sub does not declare
C26_Witness ==
  /\ pc = "done"
  /\ value_of(result) = HelpRequest(<<S_sub>>)
  /\ tokens = <<S_sub, T_help, <<"-", "-", "t", "a", "g">> >>
  /\ ReservedReached(2)
  /\ roles[3] = NoRole
  /\ parse(root, <<S_sub, <<"-", "-", "t", "a", "g">> >>, env).kind = "Error"

\* the ways a level consumes a token
Consumptions == {"long", "short", "value", "ddash", "subcmd", "positional"}

\* the index of every running level is within the token list, and a token parse that ended
\* with LevelOk consumed every token
IndexInRange ==
  /\ \A n \in DOMAIN frames : frames[n].i <= Len(tokens)
  /\ has_value(level_result) /\ value_of(level_result).kind = "LevelOk" =>
       \A k \in DOMAIN roles : roles[k].kind \in Consumptions

\* one iteration of the loop of the running level, or the return of the call it made: it
\* fails, returns, calls the level parser for a subcommand on the tokens after the current one,
\* or moves the index forward, consuming exactly the tokens it moves over; no token is
\* consumed a second time
IterationAdvances ==
  /\ \A k \in DOMAIN roles : roles[k] # NoRole => roles'[k] = roles[k]
  /\ pc = "parse_level" /\ Top.i < Len(tokens) =>
       \/ pc' = "error"
       \/ pc' = "returned" /\ value_of(returned').kind \in Requests
       \/ /\ Len(frames') = Len(frames) + 1
          /\ frames'[Len(frames')].i = Top.i + 1
          /\ roles'[Top.i + 1].kind = "subcmd"
       \/ /\ Len(frames') = Len(frames)
          /\ frames'[Len(frames)].i > Top.i
          /\ \A k \in DOMAIN roles :
               (Top.i < k /\ k <= frames'[Len(frames)].i) <=>
                 (roles[k] = NoRole /\ roles'[k].kind \in Consumptions /\ roles'[k].level = Top.level)
  /\ pc = "returned" /\ frames # <<>> =>
       \/ pc' = "returned" /\ value_of(returned').kind \in Requests
       \/ /\ Len(frames') = Len(frames)
          /\ frames'[Len(frames)].i > Top.i
          /\ frames'[Len(frames)].i = Len(tokens)
          /\ roles' = roles

\* what is left to do: while the tokens are scanned, the tokens not yet passed by the running
\* level and the invocations still to return, on top of the longest post-processing; then the
\* post-processing steps left for the levels of the path
Variant ==
  IF pc \in {"parse_level", "returned"}
    THEN 4 * (Len(tokens) + 1) + 2
           + 4 * (IF pc = "parse_level" THEN Len(tokens) - Top.i ELSE 0)
           + 2 * Len(frames) + (IF pc = "returned" THEN 1 ELSE 0)
  ELSE IF pc \in {"apply_env", "apply_defaults", "run_validators", "descend"}
    THEN 4 * (Len(post.command_path) - post.path_index)
           + (CASE pc = "apply_env" -> 4 [] pc = "apply_defaults" -> 3
                [] pc = "run_validators" -> 2 [] pc = "descend" -> 1)
  ELSE 0

\* the call is never stuck before it has finished: the loop of the running level has a branch
\* for its token or ends, a returned level has a caller or parse to return to, and each
\* post-processing stage has its step
Progresses ==
  /\ Variant \in Nat
  /\ ~Finished =>
       \/ \E branch \in {"DoubleDash", "Help", "HelpMan", "Version", "LongOption", "ShortGroup",
                         "Subcommand", "Positional"} : At(branch)
       \/ pc = "parse_level" /\ frames # <<>> /\ Top.i >= Len(tokens)
       \/ pc = "returned" /\ has_value(returned)
       \/ pc \in {"apply_env", "apply_defaults", "run_validators", "descend"}

\* C27: the index of a level parser stays within the token list; every iteration of its loop
\* fails, returns, or moves the index forward over the tokens it consumes (the iteration that
\* enters a subcommand resumes at the position the child stopped at); no token is consumed
\* twice, each is consumed by one level, and a token parse that succeeds consumed them all;
\* every step leaves strictly less to do and the call is never stuck, so it comes to an end.
C27_LevelParserTerminates ==
  /\ [](IndexInRange /\ Progresses)
  /\ [][IterationAdvances /\ Variant' < Variant]_vars

\* an Ok result where a short group ending in an Option took the next token as its value and
\* the third token entered a subcommand
C27_Witness ==
  /\ ReturnedOk
  /\ tokens = << <<"-", "r", "t">>, T_dd, S_sub >>
  /\ roles[1] = Role("short", <<>>, <<1, 0>>)
  /\ roles[2] = Role("value", <<>>, <<0>>)
  /\ roles[3].kind = "subcmd"

\* a command path is a chain of the command tree: each segment names a child of the command
\* the segments before it lead to
IsChain(command_path) ==
  \A n \in 1..Len(command_path) :
    has_value(find_command(CommandAt(root, SubSeq(command_path, 1, n - 1)).commands, command_path[n]))

\* the renderers resolve the path: the root itself for the empty path, else the command that
\* manpage::find_command finds, which is the one the path leads to
Renders(command_path) ==
  \/ command_path = <<>>
  \/ /\ "found" \in DOMAIN manpage_find_command(root, command_path)
     /\ manpage_find_command(root, command_path).found = CommandAt(root, command_path)

\* C28: a level that returns LevelOk has consumed every remaining token (next_pos is the
\* number of tokens), so after a subcommand name no later token is handled by the level that
\* entered it or by one above, and no level enters two subcommands; the command_path of every
\* Ok, HelpRequest and ManpageRequest is the sequence of the names entered, a chain of the
\* command tree, which the help and man-page renderers resolve to the command it leads to.
C28_ChildConsumesTheRest ==
  /\ has_value(returned) /\ value_of(returned).kind = "LevelOk" =>
       /\ value_of(returned).next_pos = Len(tokens)
       /\ \A k \in DOMAIN roles : roles[k] # NoRole
  /\ \A k \in DOMAIN roles : roles[k].kind = "subcmd" =>
       \A m \in (k + 1)..Len(tokens) :
         roles[m] # NoRole =>
           /\ IsPrefix(Append(roles[k].level, tokens[k]), roles[m].level)
           /\ ~(roles[m].kind = "subcmd" /\ roles[m].level = roles[k].level)
  /\ pc = "done" /\ value_of(result).kind \in {"ParseOk", "HelpRequest", "ManpageRequest"} =>
       /\ value_of(result).command_path = Entered
       /\ IsChain(value_of(result).command_path)
       /\ Renders(value_of(result).command_path)

\* an Ok result two subcommands deep, whose path the renderers resolve to the leaf command
C28_Witness ==
  /\ ReturnedOk
  /\ tokens = <<S_sub, S_leaf, S_v>>
  /\ value_of(result).command_path = <<S_sub, S_leaf>>
  /\ manpage_find_command(root, <<S_sub, S_leaf>>) = [found |-> LeafCommand]
  /\ roles[3] = Role("positional", <<S_sub, S_leaf>>, <<1>>)

\* the levels post-processing has touched: by an environment lookup, a default or a call
PostTouched ==
  {r[1] : r \in env_reads} \cup {d[1] : d \in defaults_applied}
    \cup {post_calls[n][2] : n \in DOMAIN post_calls}

\* the arguments of the levels that are not on the path: <<level, 1-based index>>
OffPathArgs(command_path) ==
  UNION { {<<L, j>> : j \in 1..Len(CommandAt(root, L).args)} :
          L \in AllLevels \ LevelsOf(command_path) }

\* the dests the arguments of the levels of the path store under
PathDests(command_path) ==
  UNION { {CommandAt(root, L).args[j].dest : j \in 1..Len(CommandAt(root, L).args)} :
          L \in LevelsOf(command_path) }

\* the environment variables the arguments of the levels of the path name
PathEnvVars(command_path) ==
  UNION { {value_of(CommandAt(root, L).args[j].env) :
             j \in {n \in 1..Len(CommandAt(root, L).args) :
                      /\ "env" \in DOMAIN CommandAt(root, L).args[n]
                      /\ has_value(CommandAt(root, L).args[n].env)}} :
          L \in LevelsOf(command_path) }

\* C29: every key of an Ok config is the dest of an argument of the root or of a command on
\* the resolved path (the keys the config schema of that path admits); an argument of a
\* command off the path contributes no key, and at no time is it defaulted, validated or
\* its environment variable looked up: post-processing touches levels of the path only, every
\* lookup is made for an argument of the path and asks for that argument's variable, and a
\* variable or dest that only arguments off the path name is never asked for or written.
C29_OutputFrame ==
  /\ PostTouched \subseteq LevelsOf(Entered)
  /\ \A r \in env_reads :
       CommandAt(root, r[1]).args[r[2] + 1].env = Some(r[3])
  /\ \A a \in OffPathArgs(Entered) :
       LET spec == CommandAt(root, a[1]).args[a[2]]
       IN /\ <<a[1], a[2] - 1>> \notin defaults_applied
          /\ \A r \in env_reads : ~(r[1] = a[1] /\ r[2] = a[2] - 1)
          /\ "env" \in DOMAIN spec /\ has_value(spec.env)
               /\ value_of(spec.env) \notin PathEnvVars(Entered) =>
               \A r \in env_reads : r[3] # value_of(spec.env)
  /\ ReturnedOk =>
       LET command_path == value_of(result).command_path
           config == value_of(result).config
       IN /\ DOMAIN config \subseteq PathDests(command_path)
          /\ to_config_schema(root, command_path).properties = PathDests(command_path)
          /\ DOMAIN config \subseteq to_config_schema(root, command_path).properties
          /\ \A a \in OffPathArgs(command_path) :
               CommandAt(root, a[1]).args[a[2]].dest \notin PathDests(command_path) =>
                 CommandAt(root, a[1]).args[a[2]].dest \notin DOMAIN config

\* 'sub x' with KEY set: Ok on path sub, and the sibling alt, whose key has an environment
\* variable and a default and whose req is required, left no trace
C29_Witness ==
  /\ ReturnedOk
  /\ tokens = <<S_sub, S_x>>
  /\ env[S_KEY] = Some(S_e)
  /\ value_of(result).command_path = <<S_sub>>
  /\ PostTouched = {<<>>, <<S_sub>>}
  /\ << <<<<"a", "l", "t">>>>, 1 >> \in OffPathArgs(<<S_sub>>)
  /\ DOMAIN value_of(result).config
       = {<<"c", "o", "l", "o", "r">>, <<"d", "s", "t">>, S_mode}
  /\ env_reads = {}

\* this step consumes position k as the value of an Option given without an inline value
TakesValue(k) == roles[k] = NoRole /\ roles'[k].kind = "value"

\* the dests of the arguments of the running level that the token at position k selected
SelectedDests(k) == {Node.args[roles'[k].args[n] + 1].dest : n \in DOMAIN roles'[k].args}

\* C30: the token consumed as the value of an Option given without an inline value is not
\* classified: whatever its text, the step hands it to the converter of the Option that the
\* token before it selected and either fails with ConversionError or stores the converted
\* value under the Option's dest and moves on to the token after it; the step changes nothing
\* else: options stay unterminated, no request is returned, no argument other than those the
\* option token selected is written or counted, no subcommand is entered and the command path
\* stays.
C30_ValueTokenUnclassified ==
  [][\A k \in DOMAIN roles : TakesValue(k) =>
       LET j == roles'[k].args[1]
           opt == Node.args[j + 1]
           conv == ConverterParse(opt.converter, tokens[k])
           config == Top.config
           before == IF Contains(config, opt.dest) THEN config[opt.dest].arr ELSE <<>>
       IN /\ k > 1
          /\ roles'[k] = Role("value", Top.level, <<j>>)
          /\ opt.type = "Option"
          /\ roles[k - 1] = NoRole
          /\ roles'[k - 1].kind \in {"long", "short"}
          /\ roles'[k - 1].level = Top.level
          /\ roles'[k - 1].args[Len(roles'[k - 1].args)] = j
          /\ \A m \in (k + 1)..Len(tokens) : roles'[m] = NoRole
          /\ returned' = returned /\ result' = result
          /\ IF ~has_value(conv)
               THEN /\ pc' = "error"
                    /\ value_of(error').error = "ConversionError"
                    /\ value_of(error').name \in {cli_name(opt.names[n]) : n \in DOMAIN opt.names}
               ELSE /\ pc' = "parse_level"
                    /\ frames' = [frames EXCEPT
                                    ![Len(frames)].config = frames'[Len(frames)].config,
                                    ![Len(frames)].flag_counts = frames'[Len(frames)].flag_counts,
                                    ![Len(frames)].i = k]
                    /\ \A n \in DOMAIN Top.flag_counts :
                         frames'[Len(frames)].flag_counts[n] # Top.flag_counts[n] =>
                           \E c \in DOMAIN roles'[k - 1].args : roles'[k - 1].args[c] = n - 1
                    /\ frames'[Len(frames)].config[opt.dest] =
                         IF opt.repeated THEN JArr(Append(before, value_of(conv)))
                         ELSE value_of(conv)
                    /\ \A dest \in DOMAIN frames'[Len(frames)].config \ SelectedDests(k - 1) :
                         /\ Contains(config, dest)
                         /\ frames'[Len(frames)].config[dest] = config[dest]]_vars

\* -t took -- as its value: options were not terminated, so --red after it is still a flag
C30_Witness ==
  /\ ReturnedOk
  /\ tokens = << <<"-", "t">>, T_dd, <<"-", "-", "r", "e", "d">> >>
  /\ roles[2] = Role("value", <<>>, <<0>>)
  /\ roles[3].kind = "long"
  /\ value_of(result).config[<<"t", "a", "g">>] = JArr(<<JStr(T_dd)>>)
  /\ value_of(result).config[<<"c", "o", "l", "o", "r">>] = JArr(<<JStr(<<"r">>)>>)
  /\ value_of(result).command_path = <<>>

====
